---- MODULE Spec2Model ----
(***************************************************************************)
(* Model of the EFI boot-service emulation of kernel/kexec.c: the memory   *)
(* ledger (efi_memory_mappings), the 1:1 address mapper and the memory     *)
(* services the guest calls through the boot-service table.                *)
(*                                                                         *)
(* Machine words are WordBits wide instead of 64 (TLC integers are 32      *)
(* bits); every u64/unsigned long computation of the source is reduced     *)
(* modulo Word here, so the wrap-arounds of the source occur in the model  *)
(* at the scaled width.                                                    *)
(***************************************************************************)
EXTENDS Integers, Sequences, FiniteSets, TLC

\* ---------------------------------------------------------------- bounds
WordBits == 24
MaxLedger == 2
MaxFaults == 1

Word == 2 ^ WordBits
U(x) == x % Word

\* ------------------------------------------------------- program constants
PAGE_SIZE == 4096
DescriptorSize == 48
EFI_DEFAULT_MEM_ATTRIBUTES == 15
pool_pages == 200

EfiReservedMemoryType == 0
EfiLoaderCode == 1
EfiLoaderData == 2
EfiBootServicesData == 4
EfiConventionalMemory == 7

AllocateAnyPages == 0
AllocateMaxAddress == 1
AllocateAddress == 2

EFI_SUCCESS == "EFI_SUCCESS"
EFI_UNSUPPORTED == "EFI_UNSUPPORTED"
EFI_INVALID_PARAMETER == "EFI_INVALID_PARAMETER"
EFI_BUFFER_TOO_SMALL == "EFI_BUFFER_TOO_SMALL"
EFI_OUT_OF_RESOURCES == "EFI_OUT_OF_RESOURCES"
\* the call did not return: the host stopped in BUG_ON or on a NULL dereference
NoReturn == "NoReturn"

\* errno values; a call returns their negation
EPERM == 1
ENOMEM == 12
EFAULT == 14
EBUSY == 16
EINVAL == 22

\* ------------------------------------------------------------------ state
VARIABLES
    pc,                  \* "idle": no PE session; "guest": efiApp is running
    host,                \* "OK", or "BUG" / "OOPS" once the kernel stopped
    efi_memory_mappings, \* the ledger: sequence of EFI_MEMORY_DESCRIPTOR
    efi_mem_map_epoch,   \* the value GetMemoryMap reports as MapKey
    vmas,                \* current->mm: set of [vm_start, vm_end, pfnmap]
    kheap,               \* live kmalloc objects: set of [base, size]
    phys_of_null,        \* what virt_to_phys gives for a NULL pointer on
                         \* this build; -1 until a call first computes it
    faults,              \* host failures so far (kmalloc, memremap, do_mmap,
                         \* remap_pfn_range returning an error)
    last,                \* the last service call: arguments, status, outputs
    kexec_mutex,         \* 0 when free, else the task that holds it
    task,                \* per task: where it is in kexec_load, its arguments
                         \* and what its last call returned
    image,               \* the kimage of the call in do_kexec_load, with the
                         \* bytes of its raw_image buffer
    windows_loaded_image,\* the EFI_LOADED_IMAGE_PROTOCOL global
    fake_systab,         \* the system table and linux_bootservices
    arg,                 \* inputs of a function examined on its own
    retval               \* what that function returned

ledgervars == <<pc, host, efi_memory_mappings, efi_mem_map_epoch, vmas, kheap,
                phys_of_null, faults, last>>
loadvars == <<kexec_mutex, task, image, windows_loaded_image, fake_systab>>
purevars == <<arg, retval>>
vars == <<pc, host, efi_memory_mappings, efi_mem_map_epoch, vmas, kheap,
          phys_of_null, faults, last, kexec_mutex, task, image,
          windows_loaded_image, fake_systab, arg, retval>>

\* --------------------------------------------------------------- pointers
\* A kernel pointer is NULL, ZERO_SIZE_PTR (what kmalloc(0) returns) or an
\* address of the linear map, named by the physical address it maps.
NULL == [k |-> "null", a |-> 0]
ZERO_SIZE_PTR == [k |-> "zero", a |-> 16]
LinPtr(p) == [k |-> "lin", a |-> p]

\* virt_to_phys is linear arithmetic on the pointer: the physical address for
\* a linear-map pointer, a build-dependent value for any other pointer.
NullPhys == {28672, 1052672}            \* 0x7000, 0x101000
virt_to_phys(ptr, env) ==
    IF ptr.k = "lin" THEN ptr.a ELSE U(env.null_phys + ptr.a)

ALIGN_DOWN(x, a) == x - (x % a)
ALIGN(x, a) == U(ALIGN_DOWN(x + a - 1, a))

\* n * PAGE_SIZE in a machine word
PagesToBytes(n) == (n % (Word \div PAGE_SIZE)) * PAGE_SIZE

NUM_PAGES(size) == (U(size - 1) \div PAGE_SIZE) + 1

\* ------------------------------------------------------ host environment
\* kmalloc: ZERO_SIZE_PTR for size 0; else NULL on failure or an object that
\* overlaps no live object.  Objects are never freed by this code.
SmallObjs == {12288, 12304}             \* 0x3000, 0x3010: one slab page
PageObjs == {16384}                     \* 0x4000
BigObjs == {1048576}                    \* 0x100000

KmallocAddrs(size) ==
    IF size <= 16 THEN SmallObjs
    ELSE IF size <= 2 * PAGE_SIZE THEN PageObjs
    ELSE BigObjs

Overlap(b1, s1, b2, s2) == b1 < b2 + s2 /\ b2 < b1 + s1

\* kmalloc hands out the lowest free object of the size class; it returns
\* NULL when the host fails the request or no object is free.
kmalloc(heap, size, ok) ==
    IF size = 0 THEN ZERO_SIZE_PTR
    ELSE LET free == {q \in KmallocAddrs(size) :
                        \A o \in heap : ~Overlap(q, size, o.base, o.size)}
         IN IF ~ok \/ free = {} THEN NULL
            ELSE LinPtr(CHOOSE q \in free : \A r \in free : q <= r)

\* The outcomes of one service call that the host decides: whether kmalloc
\* of the pool, kmalloc(sizeof(MemoryAllocation)), memremap, do_mmap and
\* remap_pfn_range succeed, and what virt_to_phys makes of a NULL pointer.
Env == {env \in [kmalloc_ok : BOOLEAN, node_ok : BOOLEAN,
                  memremap_ok : BOOLEAN, mmap_ok : BOOLEAN,
                  remap_ok : BOOLEAN, null_phys : NullPhys] :
           Cardinality({f \in {"kmalloc_ok", "node_ok", "memremap_ok",
                               "mmap_ok", "remap_ok"} : ~env[f]}) <= MaxFaults}

NoFailure(env) ==
    [kmalloc_ok |-> TRUE, node_ok |-> TRUE, memremap_ok |-> TRUE,
     mmap_ok |-> TRUE, remap_ok |-> TRUE, null_phys |-> env.null_phys]

Failures(env) ==
    (IF env.kmalloc_ok THEN 0 ELSE 1) + (IF env.node_ok THEN 0 ELSE 1)
    + (IF env.memremap_ok THEN 0 ELSE 1) + (IF env.mmap_ok THEN 0 ELSE 1)
    + (IF env.remap_ok THEN 0 ELSE 1)

\* ------------------------------------------------------- address mapper
NoVma == [vm_start |-> -1, vm_end |-> -1, pfnmap |-> FALSE]

\* find_vma: the first vma that ends above addr, NULL if there is none
find_vma(mm, addr) ==
    LET above == {v \in mm : v.vm_end > addr} IN
    IF above = {} THEN NoVma
    ELSE CHOOSE v \in above : \A w \in above : v.vm_end <= w.vm_end

\* do_mmap(MAP_FIXED) over [start, end): what was mapped there is unmapped
\* (vmas straddling a boundary are split) and a new private vma is inserted.
do_mmap(mm, start, end) ==
    LET keep == {v \in mm : v.vm_end <= start \/ v.vm_start >= end}
        cut == mm \ keep
        left == {[v EXCEPT !.vm_end = start] : v \in {w \in cut : w.vm_start < start}}
        right == {[v EXCEPT !.vm_start = end] : v \in {w \in cut : w.vm_end > end}}
    IN keep \cup left \cup right
            \cup {[vm_start |-> start, vm_end |-> end, pfnmap |-> FALSE]}

\* remap_pfn_range on a private writable (copy-on-write) vma: refused unless
\* the range is the whole vma; on success the vma carries VM_PFNMAP.
remap_pfn_range(mm, vma, addr, end, ok) ==
    IF ok /\ vma \in mm /\ addr = vma.vm_start /\ end = vma.vm_end
    THEN (mm \ {vma}) \cup {[vma EXCEPT !.pfnmap = TRUE]}
    ELSE mm

\* m is the machine: [mappings, vmas, kheap, host, phys_of_null]
efi_setup_11_mapping(m0, addr, size, env) ==
    LET m == IF addr.k = "lin" THEN m0
             ELSE [m0 EXCEPT !.phys_of_null = env.null_phys]
        start == ALIGN_DOWN(virt_to_phys(addr, env), PAGE_SIZE)
        end == ALIGN(virt_to_phys(addr, env) + size, PAGE_SIZE)
        vma == find_vma(m.vmas, start)
    IN IF vma = NoVma THEN [m EXCEPT !.host = "OOPS"]
       ELSE IF vma.vm_start <= start
       THEN IF ~vma.pfnmap \/ vma.vm_end < end
            THEN [m EXCEPT !.host = "BUG"]
            ELSE m
       ELSE LET mm1 == IF env.mmap_ok /\ end > start
                       THEN do_mmap(m.vmas, start, end) ELSE m.vmas
                vma2 == find_vma(mm1, start)
                end2 == IF vma2.vm_end > end THEN vma2.vm_end ELSE end
            IN [m EXCEPT !.vmas = remap_pfn_range(mm1, vma2, start, end2,
                                                   env.remap_ok)]

\* ------------------------------------------------------------ the ledger
Descriptor(type, phys, pages) ==
    [type |-> type, pad |-> 0, phys_addr |-> phys, virt_addr |-> 0,
     num_pages |-> pages, attribute |-> EFI_DEFAULT_MEM_ATTRIBUTES, pad2 |-> 0]

\* Mutant: the new node is linked at the head of the list (list_add).
efi_register_mem_allocation_AddHead(m, MemoryType, NumberOfPages, allocation, env) ==
    IF ~env.node_ok THEN m
    ELSE [m EXCEPT !.mappings =
             <<Descriptor(MemoryType, virt_to_phys(allocation, env),
                          NumberOfPages)>> \o @]

efi_register_mem_allocation(m, MemoryType, NumberOfPages, allocation, env) ==
    IF ~env.node_ok THEN m
    ELSE [m EXCEPT !.mappings =
             Append(@, Descriptor(MemoryType, virt_to_phys(allocation, env),
                                  NumberOfPages))]


IsFree(d) == d.type = EfiConventionalMemory

\* the descriptors the scan of efi_unregister_allocation stops at: those
\* whose range [phys_addr, phys_addr + num_pages * PAGE_SIZE) holds the address
InRegion(mem_map, PhysicalAddress) ==
    LET end_of_region == U(mem_map.phys_addr + PagesToBytes(mem_map.num_pages))
    IN ~(PhysicalAddress < mem_map.phys_addr \/ PhysicalAddress >= end_of_region)

\* Mutant: a descriptor that is free already is not freed again.
efi_unregister_allocation_Once(mappings, PhysicalAddress, NumberOfPages) ==
    LET hits == {i \in 1..Len(mappings) : InRegion(mappings[i], PhysicalAddress)}
    IN IF hits = {}
       THEN [status |-> EFI_INVALID_PARAMETER, mappings |-> mappings]
       ELSE LET i == CHOOSE j \in hits : \A k \in hits : j <= k
                mem_map == mappings[i]
                offset_in_mapping == PhysicalAddress - mem_map.phys_addr
            IN IF \/ offset_in_mapping # 0
                  \/ mem_map.num_pages # NumberOfPages
                  \/ mem_map.type = EfiConventionalMemory
               THEN [status |-> EFI_INVALID_PARAMETER, mappings |-> mappings]
               ELSE [status |-> EFI_SUCCESS,
                     mappings |-> [mappings EXCEPT
                                     ![i].type = EfiConventionalMemory]]

\* Mutant: the free request's page count is not compared with the descriptor's.
efi_unregister_allocation_AnyCount(mappings, PhysicalAddress, NumberOfPages) ==
    LET hits == {i \in 1..Len(mappings) : InRegion(mappings[i], PhysicalAddress)}
    IN IF hits = {}
       THEN [status |-> EFI_INVALID_PARAMETER, mappings |-> mappings]
       ELSE LET i == CHOOSE j \in hits : \A k \in hits : j <= k
                mem_map == mappings[i]
                offset_in_mapping == PhysicalAddress - mem_map.phys_addr
            IN IF offset_in_mapping # 0
               THEN [status |-> EFI_INVALID_PARAMETER, mappings |-> mappings]
               ELSE [status |-> EFI_SUCCESS,
                     mappings |-> [mappings EXCEPT
                                     ![i].type = EfiConventionalMemory]]

efi_unregister_allocation(mappings, PhysicalAddress, NumberOfPages) ==
    LET hits == {i \in 1..Len(mappings) : InRegion(mappings[i], PhysicalAddress)}
    IN IF hits = {}
       THEN [status |-> EFI_INVALID_PARAMETER, mappings |-> mappings]
       ELSE LET i == CHOOSE j \in hits : \A k \in hits : j <= k
                mem_map == mappings[i]
                offset_in_mapping == PhysicalAddress - mem_map.phys_addr
            IN IF offset_in_mapping # 0 \/ mem_map.num_pages # NumberOfPages
               THEN [status |-> EFI_INVALID_PARAMETER, mappings |-> mappings]
               ELSE [status |-> EFI_SUCCESS,
                     mappings |-> [mappings EXCEPT
                                     ![i].type = EfiConventionalMemory]]

\* ----------------------------------------------------------- EFI hooks
efi_hook_FreePages(m, PhysicalAddress, NumberOfPages) ==
    LET r == efi_unregister_allocation(m.mappings, PhysicalAddress, NumberOfPages)
    IN [m |-> [m EXCEPT !.mappings = r.mappings], status |-> r.status]

efi_get_mem_map_size(mappings) == Len(mappings) * DescriptorSize

\* An out-parameter the call did not write / wrote v to.
Unwritten == [written |-> FALSE, v |-> 0]
Wrote(v) == [written |-> TRUE, v |-> v]

\* Mutant: a short buffer is reported without writing the needed size back.
efi_hook_GetMemoryMap_KeepSize(mappings, epoch, MemoryMapSize) ==
    LET current_mapping_size == efi_get_mem_map_size(mappings) IN
    IF MemoryMapSize < current_mapping_size
    THEN [status |-> EFI_BUFFER_TOO_SMALL,
          MemoryMapSize |-> MemoryMapSize,
          MemoryMap |-> <<>>,
          MapKey |-> Unwritten,
          DescriptorSize |-> DescriptorSize, DescriptorVersion |-> 1]
    ELSE [status |-> EFI_SUCCESS,
          MemoryMapSize |-> Len(mappings) * DescriptorSize,
          MemoryMap |-> [i \in 1..Len(mappings) |-> mappings[i]],
          MapKey |-> Wrote(epoch),
          DescriptorSize |-> DescriptorSize, DescriptorVersion |-> 1]

\* Mutant: descriptors of freed memory are left out of the map.
efi_hook_GetMemoryMap_ActiveOnly(mappings, epoch, MemoryMapSize) ==
    LET current_mapping_size == efi_get_mem_map_size(mappings)
        active == SelectSeq(mappings, LAMBDA d : ~IsFree(d))
    IN
    IF MemoryMapSize < current_mapping_size
    THEN [status |-> EFI_BUFFER_TOO_SMALL,
          MemoryMapSize |-> current_mapping_size,
          MemoryMap |-> <<>>,
          MapKey |-> Unwritten,
          DescriptorSize |-> DescriptorSize, DescriptorVersion |-> 1]
    ELSE [status |-> EFI_SUCCESS,
          MemoryMapSize |-> Len(active) * DescriptorSize,
          MemoryMap |-> active,
          MapKey |-> Wrote(epoch),
          DescriptorSize |-> DescriptorSize, DescriptorVersion |-> 1]

\* MemoryMap is the caller's buffer as the descriptors written into it, from
\* its start; <<>> is a buffer the call did not write.
efi_hook_GetMemoryMap(mappings, epoch, MemoryMapSize) ==
    LET current_mapping_size == efi_get_mem_map_size(mappings) IN
    IF MemoryMapSize < current_mapping_size
    THEN [status |-> EFI_BUFFER_TOO_SMALL,
          MemoryMapSize |-> current_mapping_size,
          MemoryMap |-> <<>>,
          MapKey |-> Unwritten,
          DescriptorSize |-> DescriptorSize, DescriptorVersion |-> 1]
    ELSE [status |-> EFI_SUCCESS,
          MemoryMapSize |-> Len(mappings) * DescriptorSize,
          MemoryMap |-> [i \in 1..Len(mappings) |-> mappings[i]],
          MapKey |-> Wrote(epoch),
          DescriptorSize |-> DescriptorSize, DescriptorVersion |-> 1]

kmalloc_account(heap, ptr, size) ==
    IF ptr.k = "lin" THEN heap \cup {[base |-> ptr.a, size |-> size]} ELSE heap

\* Mutant: the result of kmalloc is used without the NULL check.
efi_hook_AllocatePool_NoNullCheck(m, pool_type, size, env) ==
    LET allocation == kmalloc(m.kheap, size, env.kmalloc_ok)
        m0 == [m EXCEPT !.kheap = kmalloc_account(@, allocation, size)]
        m1 == efi_setup_11_mapping(m0, allocation, size, env)
    IN IF m1.host # "OK"
       THEN [m |-> m1, status |-> NoReturn, buffer |-> Unwritten]
       ELSE [m |-> efi_register_mem_allocation(m1, pool_type,
                                   NUM_PAGES(size), allocation, env),
             status |-> EFI_SUCCESS,
             buffer |-> Wrote(virt_to_phys(allocation, env))]

efi_hook_AllocatePool(m, pool_type, size, env) ==
    LET allocation == kmalloc(m.kheap, size, env.kmalloc_ok) IN
    IF allocation = NULL
    THEN [m |-> m, status |-> EFI_OUT_OF_RESOURCES, buffer |-> Unwritten]
    ELSE LET m0 == [m EXCEPT !.kheap = kmalloc_account(@, allocation, size)]
             m1 == efi_setup_11_mapping(m0, allocation, size, env)
         IN IF m1.host # "OK"
            THEN [m |-> m1, status |-> NoReturn, buffer |-> Unwritten]
            ELSE [m |-> efi_register_mem_allocation(m1, pool_type,
                                        NUM_PAGES(size), allocation, env),
                  status |-> EFI_SUCCESS,
                  buffer |-> Wrote(virt_to_phys(allocation, env))]

\* memremap of RAM gives the linear-map address of the range, NULL on failure
memremap(offset, env) == IF env.memremap_ok THEN LinPtr(offset) ELSE NULL

\* Mutant: every allocation type but AllocateAddress is served from the pool.
efi_hook_AllocatePages_AnyKind(m, Type, MemoryType, NumberOfPages, Memory, env) ==
    IF MemoryType # EfiLoaderData /\ MemoryType # EfiConventionalMemory
                                   /\ MemoryType # EfiLoaderCode
    THEN [m |-> m, status |-> EFI_UNSUPPORTED, Memory |-> Unwritten]
    ELSE IF Type = AllocateAddress
    THEN LET allocation == memremap(Memory, env)
             m1 == efi_setup_11_mapping(m, allocation,
                                        PagesToBytes(NumberOfPages), env)
         IN IF m1.host # "OK"
            THEN [m |-> m1, status |-> NoReturn, Memory |-> Unwritten]
            ELSE [m |-> efi_register_mem_allocation(m1, MemoryType,
                                        NumberOfPages, allocation, env),
                  status |-> EFI_SUCCESS, Memory |-> Unwritten]
    ELSE LET r == efi_hook_AllocatePool(m, MemoryType,
                                        PagesToBytes(NumberOfPages), env)
         IN IF r.status = NoReturn
            THEN [m |-> r.m, status |-> NoReturn, Memory |-> Unwritten]
            ELSE [m |-> r.m, status |-> r.status,
                  Memory |-> Wrote(IF r.buffer.written THEN r.buffer.v ELSE 0)]

\* Mutant: the memory type is checked on the any-address path only.
efi_hook_AllocatePages_LateTypeCheck(m, Type, MemoryType, NumberOfPages, Memory, env) ==
    IF Type = AllocateAddress
    THEN LET allocation == memremap(Memory, env)
             m1 == efi_setup_11_mapping(m, allocation,
                                        PagesToBytes(NumberOfPages), env)
         IN IF m1.host # "OK"
            THEN [m |-> m1, status |-> NoReturn, Memory |-> Unwritten]
            ELSE [m |-> efi_register_mem_allocation(m1, MemoryType,
                                        NumberOfPages, allocation, env),
                  status |-> EFI_SUCCESS, Memory |-> Unwritten]
    ELSE IF MemoryType # EfiLoaderData /\ MemoryType # EfiConventionalMemory
                                        /\ MemoryType # EfiLoaderCode
    THEN [m |-> m, status |-> EFI_UNSUPPORTED, Memory |-> Unwritten]
    ELSE IF Type = AllocateAnyPages
    THEN LET r == efi_hook_AllocatePool(m, MemoryType,
                                        PagesToBytes(NumberOfPages), env)
         IN IF r.status = NoReturn
            THEN [m |-> r.m, status |-> NoReturn, Memory |-> Unwritten]
            ELSE [m |-> r.m, status |-> r.status,
                  Memory |-> Wrote(IF r.buffer.written THEN r.buffer.v ELSE 0)]
    ELSE [m |-> m, status |-> EFI_UNSUPPORTED, Memory |-> Unwritten]

efi_hook_AllocatePages(m, Type, MemoryType, NumberOfPages, Memory, env) ==
    IF MemoryType # EfiLoaderData /\ MemoryType # EfiConventionalMemory
                                   /\ MemoryType # EfiLoaderCode
    THEN [m |-> m, status |-> EFI_UNSUPPORTED, Memory |-> Unwritten]
    ELSE IF Type = AllocateAddress
    THEN LET allocation == memremap(Memory, env)
             m1 == efi_setup_11_mapping(m, allocation,
                                        PagesToBytes(NumberOfPages), env)
         IN IF m1.host # "OK"
            THEN [m |-> m1, status |-> NoReturn, Memory |-> Unwritten]
            ELSE [m |-> efi_register_mem_allocation(m1, MemoryType,
                                        NumberOfPages, allocation, env),
                  status |-> EFI_SUCCESS, Memory |-> Unwritten]
    ELSE IF Type = AllocateAnyPages
    THEN LET r == efi_hook_AllocatePool(m, MemoryType,
                                        PagesToBytes(NumberOfPages), env)
         IN IF r.status = NoReturn
            THEN [m |-> r.m, status |-> NoReturn, Memory |-> Unwritten]
            ELSE [m |-> r.m, status |-> r.status,
                  Memory |-> Wrote(IF r.buffer.written THEN r.buffer.v ELSE 0)]
    ELSE [m |-> m, status |-> EFI_UNSUPPORTED, Memory |-> Unwritten]

\* Mutant: the descriptor of the pool is re-tagged as free memory.
efi_hook_FreePool_Reclaim(m, buff) ==
    [m |-> [m EXCEPT !.mappings =
               [i \in 1..Len(@) |->
                   IF @[i].phys_addr = buff
                   THEN [@[i] EXCEPT !.type = EfiConventionalMemory]
                   ELSE @[i]]],
     status |-> EFI_SUCCESS]

efi_hook_FreePool(m, buff) == [m |-> m, status |-> EFI_SUCCESS]


\* ------------------------------------------------------ inputs of the guest
\* <<Type, MemoryType, NumberOfPages, *Memory>> of the AllocatePages calls
AllocatePagesInputs ==
    {<<AllocateAddress, EfiLoaderData, 1, 1052672>>,       \* 0x101000
     <<AllocateAddress, EfiLoaderCode, 2, 1052672>>,
     <<AllocateAddress, EfiLoaderData, 1, 1867776>>,       \* 0x1C8000
     <<AllocateAddress, EfiConventionalMemory, 1, 1056768>>, \* 0x102000
     <<AllocateAddress, EfiLoaderData, 0, 1052672>>,
     <<AllocateAddress, EfiBootServicesData, 1, 1052672>>,
     <<AllocateAnyPages, EfiLoaderData, 1, 1052672>>,
     \* a page count whose byte size wraps around the machine word
     <<AllocateAnyPages, EfiLoaderData, (Word \div PAGE_SIZE) + 1, 0>>,
     <<AllocateAnyPages, EfiReservedMemoryType, 1, 0>>,
     <<AllocateMaxAddress, EfiLoaderData, 1, 1052672>>,
     <<AllocateMaxAddress, EfiBootServicesData, 1, 1052672>>}
\* <<pool_type, size>> of the AllocatePool calls
AllocatePoolInputs ==
    {<<EfiLoaderData, 0>>, <<EfiLoaderData, 16>>, <<EfiBootServicesData, 16>>}
\* <<PhysicalAddress, NumberOfPages>> of the FreePages calls
FreePagesInputs ==
    {<<1052672, 1>>, <<1052672, 2>>, <<1056768, 1>>, <<1867776, 1>>,
     <<1048576, pool_pages>>, <<16384, 1>>}
MapSizes == {0, DescriptorSize + 2, MaxLedger * DescriptorSize}
\* buff of the FreePool calls: NULL, a pool's address, an untracked address
PoolPtrs == {0, 12288, 20480}

\* ---------------------------------------------------------- 64-bit values
\* The loader's pointers and the values the relocator patches are 64 bits
\* wide: a value is its eight bytes, least significant first, as it lies in
\* memory.  A number is taken modulo 2^64 by N64.
RECURSIVE LeBytes(_, _)
LeBytes(n, k) ==
    IF k = 0 THEN <<>> ELSE <<n % 256>> \o LeBytes(n \div 256, k - 1)

N64(n) == LeBytes(n, 8)

RECURSIVE AddBytes(_, _, _)
AddBytes(x, y, carry) ==
    IF x = <<>> THEN <<>>
    ELSE LET s == x[1] + y[1] + carry
         IN <<s % 256>> \o AddBytes(Tail(x), Tail(y), s \div 256)

\* A byte that was never written (vmalloc does not clear) or that was read
\* from outside the buffer holds no known value; neither does what is
\* computed from it.
Uninit == 256
Known(x) == \A i \in 1..Len(x) : x[i] # Uninit
Unknown64 == [i \in 1..8 |-> Uninit]

Add64(x, y) == IF Known(x) /\ Known(y) THEN AddBytes(x, y, 0) ELSE Unknown64
Sub64(x, y) ==
    IF Known(x) /\ Known(y) THEN AddBytes(x, [i \in 1..8 |-> 255 - y[i]], 1)
    ELSE Unknown64

\* The distance x taken as a signed number of bytes when it is within 2^24
\* of zero, else Far (beyond every buffer of the model).
Far == -(2 ^ 30)
ToOffset(x) ==
    LET low == x[1] + 256 * x[2] + 65536 * x[3]
    IN IF \A i \in 4..8 : x[i] = 0 THEN low
       ELSE IF \A i \in 4..8 : x[i] = 255 THEN low - 16777216
       ELSE Far

Min(a, b) == IF a < b THEN a ELSE b

\* ------------------------------------------------------------ the loader
\* struct kexec_segment: buf is the user memory at the segment's buffer
\* pointer (its bytes), bufsz/mem/memsz as passed by the caller.
Segment(buf, bufsz, mem, memsz) ==
    [buf |-> buf, bufsz |-> bufsz, mem |-> mem, memsz |-> memsz]

NULL64 == N64(0)

\* No user page faults during the copy
NoFault == [seg |-> 0, chunk |-> 0, done |-> 0]

\* The bytes of the raw image buffer are mem[1..size], at the addresses
\* raw_image .. raw_image + size - 1; stray holds the offsets (relative to
\* raw_image, Far when far away) of bytes written outside the buffer.
InBuffer(img, off) == off >= 0 /\ off < Len(img.mem)

WriteBytes(img, dst, bytes) ==
    [img EXCEPT
        !.mem = [k \in 1..Len(img.mem) |->
                    IF k - 1 - dst \in 0..(Len(bytes) - 1)
                    THEN bytes[k - dst] ELSE img.mem[k]],
        !.stray = @ \cup {IF dst = Far THEN Far ELSE dst + i :
                            i \in {j \in 0..(Len(bytes) - 1) :
                                      ~InBuffer(img, dst + j)}}]

ReadBytes(img, src, n) ==
    [i \in 1..n |-> IF InBuffer(img, src + i - 1)
                    THEN img.mem[src + i] ELSE Uninit]

\* copy_from_user(to, from, n): done = n when every byte was copied; when the
\* user page faults after done bytes the rest of the destination is cleared.
copy_from_user(img, dst, data, src, n, done) ==
    WriteBytes(img, dst, [i \in 1..n |-> IF i <= done THEN data[src + i]
                                         ELSE 0])

\* kimage_load_pe_segment's loop; c is the loop's variables and n the number
\* of the chunk
RECURSIVE load_pe_chunks(_, _, _, _)
load_pe_chunks(img, buf, c, fault) ==
    IF c.mbytes = 0 THEN [image |-> img, result |-> 0]
    ELSE LET mchunk == Min(c.mbytes, PAGE_SIZE - (c.maddr % PAGE_SIZE))
             uchunk == Min(c.ubytes, mchunk)
             done == IF fault.chunk = c.n THEN Min(fault.done, uchunk)
                     ELSE uchunk
             img2 == copy_from_user(img, c.raw_image_offset, buf, c.buf,
                                    uchunk, done)
         IN IF uchunk - done # 0
            THEN [image |-> img2, result |-> -EFAULT]
            ELSE load_pe_chunks(img2, buf,
                     [maddr |-> c.maddr + mchunk,
                      ubytes |-> c.ubytes - uchunk,
                      mbytes |-> c.mbytes - mchunk,
                      buf |-> c.buf + mchunk,
                      raw_image_offset |-> c.raw_image_offset + uchunk,
                      n |-> c.n + 1],
                     fault)

\* kimage_load_pe_segment placing the segment by its offset in its page
kimage_load_pe_segment_PageOffset(img, segment, fault) ==
    load_pe_chunks(img, segment.buf,
        [maddr |-> segment.mem, ubytes |-> segment.bufsz,
         mbytes |-> segment.memsz, buf |-> 0,
         raw_image_offset |-> segment.mem % PAGE_SIZE, n |-> 1],
        fault)

kimage_load_pe_segment(img, segment, fault) ==
    load_pe_chunks(img, segment.buf,
        [maddr |-> segment.mem, ubytes |-> segment.bufsz,
         mbytes |-> segment.memsz, buf |-> 0,
         raw_image_offset |-> segment.mem - img.raw_image_mem_base, n |-> 1],
        fault)

\* ---------------------------------------------------------- the relocator
SEGMENTS_OFFSET_FROM_ZERO == 16777216      \* 0x1000000
IMAGE_BASE == 268435456                    \* 0x10000000
IMAGE_REL_BASED_DIR64 == 10

\* The byte at offset i of the user memory at a segment's buffer pointer
UserByte(buf, i) == IF i >= 0 /\ i < Len(buf) THEN buf[i + 1] ELSE Uninit

\* relocation_chunk_header_t at offset chunk of the segment's buffer
ChunkHeader(buf, chunk) ==
    LET b == [i \in 1..8 |-> UserByte(buf, chunk + i - 1)]
    IN IF ~Known(b) THEN [known |-> FALSE, va_offset |-> 0, total_size |-> 0]
       ELSE [known |-> TRUE,
             va_offset |-> b[1] + 256 * b[2] + 65536 * b[3] + 16777216 * b[4],
             total_size |-> b[5] + 256 * b[6] + 65536 * b[7] + 16777216 * b[8]]

\* relocation_entry_t number i of the chunk: a 16-bit word, offset in its low
\* twelve bits and type in its high four
RelocEntry(buf, chunk, i) ==
    LET b == <<UserByte(buf, chunk + 8 + 2 * i),
               UserByte(buf, chunk + 8 + 2 * i + 1)>>
    IN IF ~Known(b) THEN [known |-> FALSE, offset |-> 0, type |-> 0]
       ELSE [known |-> TRUE, offset |-> (b[1] + 256 * b[2]) % 4096,
             type |-> (b[1] + 256 * b[2]) \div 4096]

\* (total_size - sizeof(header)) / sizeof(entry) stored in a uint32_t.  Below
\* a header's size the difference wraps and the count is
\* 2^32 - (8 - total_size + 1) / 2: the loop then runs until it leaves the
\* user memory, which every count above that memory's length does as well,
\* so the largest integer stands for it.
num_relocs(total_size) ==
    IF total_size >= 8 THEN (total_size - 8) \div 2 ELSE 2147483647

raw_image_vs_PE_bias(img) ==
    Sub64(img.raw_image_start, N64(img.start - SEGMENTS_OFFSET_FROM_ZERO))

\* RelocField without the bias added to the value
RelocField_NoBias(img, va_offset, entry) ==
    LET bias == raw_image_vs_PE_bias(img)
        address_in_image == Add64(N64(entry.offset), N64(va_offset))
        raw_image_content == Add64(bias, address_in_image)
        at == ToOffset(Sub64(raw_image_content, img.raw_image))
        old == ReadBytes(img, at, 8)
    IN [at |-> at, type |-> entry.type, offset |-> entry.offset,
        va_offset |-> va_offset, old |-> old,
        correct_value |-> Sub64(old, N64(IMAGE_BASE)),
        should_patch |-> entry.type = IMAGE_REL_BASED_DIR64]

\* RelocField storing the value whatever the entry's type
RelocField_AnyType(img, va_offset, entry) ==
    LET bias == raw_image_vs_PE_bias(img)
        address_in_image == Add64(N64(entry.offset), N64(va_offset))
        raw_image_content == Add64(bias, address_in_image)
        at == ToOffset(Sub64(raw_image_content, img.raw_image))
        old == ReadBytes(img, at, 8)
    IN [at |-> at, type |-> entry.type, offset |-> entry.offset,
        va_offset |-> va_offset, old |-> old,
        correct_value |-> Add64(Sub64(old, N64(IMAGE_BASE)), bias),
        should_patch |-> TRUE]

\* What one entry does to the image: the field's offset in the buffer, the
\* value read and the value computed, which is stored for type 10 only.
RelocField(img, va_offset, entry) ==
    LET bias == raw_image_vs_PE_bias(img)
        address_in_image == Add64(N64(entry.offset), N64(va_offset))
        raw_image_content == Add64(bias, address_in_image)
        at == ToOffset(Sub64(raw_image_content, img.raw_image))
        old == ReadBytes(img, at, 8)
    IN [at |-> at, type |-> entry.type, offset |-> entry.offset,
        va_offset |-> va_offset, old |-> old,
        correct_value |-> Add64(Sub64(old, N64(IMAGE_BASE)), bias),
        should_patch |-> entry.type = IMAGE_REL_BASED_DIR64]

\* parse_chunk_relocations' loop from entry i on.  r is the image together
\* with what was done so far: log holds one RelocField per entry handled and
\* runaway tells that the walk left the user memory known to the model.
RECURSIVE chunk_relocations(_, _, _, _, _, _)
chunk_relocations(r, buf, chunk, va_offset, num, i) ==
    IF i >= num THEN r
    ELSE LET entry == RelocEntry(buf, chunk, i)
             f == RelocField(r.image, va_offset, entry)
         IN IF ~entry.known THEN [r EXCEPT !.runaway = TRUE]
            ELSE chunk_relocations(
                    [r EXCEPT !.image = IF f.should_patch
                                        THEN WriteBytes(@, f.at, f.correct_value)
                                        ELSE @,
                              !.log = Append(@, f),
                              !.stray_read = @ \/ \E j \in 0..7 :
                                                ~InBuffer(r.image, f.at + j)],
                    buf, chunk, va_offset, num, i + 1)

parse_chunk_relocations(r, buf, chunk) ==
    LET h == ChunkHeader(buf, chunk)
    IN chunk_relocations([r EXCEPT !.chunks = Append(@, chunk)], buf, chunk,
                         h.va_offset, num_relocs(h.total_size), 0)

\* parse_reloc_table's loop with its cursor at offset chunk of segment->buf
RECURSIVE reloc_chunks(_, _, _)
reloc_chunks(r, segment, chunk) ==
    LET h == ChunkHeader(segment.buf, chunk)
        r2 == parse_chunk_relocations(r, segment.buf, chunk)
    IN IF ~(chunk < segment.bufsz) THEN r
       ELSE IF ~h.known THEN [r EXCEPT !.runaway = TRUE]
       ELSE IF h.total_size = 0 THEN r
       ELSE IF r2.runaway THEN r2
       ELSE reloc_chunks(r2, segment, chunk + h.total_size)

parse_reloc_table(img, segment) ==
    reloc_chunks([image |-> img, log |-> <<>>, chunks |-> <<>>,
                  stray_read |-> FALSE, runaway |-> FALSE], segment, 0)

\* ---------------------------------------------------------- kimage_load_pe
\* Addresses vmalloc and vmalloc_exec hand out: 0x20000000,
\* 0xFFFFFF8008000000, 0xFFFFFF8008010000
VmallocAddrs == {<<0, 0, 0, 32, 0, 0, 0, 0>>,
                 <<0, 0, 0, 8, 128, 255, 255, 255>>,
                 <<0, 0, 1, 8, 128, 255, 255, 255>>}

\* What the host does during one load: the outcome of the staging in
\* kimage_alloc_init, of vmalloc_exec, and the user page fault, if any, that
\* interrupts copy_from_user in chunk number fault.chunk of segment fault.seg
\* after fault.done bytes.
LoadEnv(alloc_init, vmalloc_ok, vmalloc, fault) ==
    [alloc_init |-> alloc_init, vmalloc_ok |-> vmalloc_ok,
     vmalloc |-> vmalloc, fault |-> fault]

vmalloc_exec(size, env) ==
    IF size = 0 \/ ~env.vmalloc_ok THEN NULL64 ELSE env.vmalloc

\* No image is being loaded
NoImage == [start |-> 0, nr_segments |-> 0, segment |-> <<>>,
            raw_image |-> NULL64, raw_image_mem_base |-> 0,
            raw_image_start |-> NULL64, mem |-> <<>>, stray |-> {}]

\* kimage_alloc_init: the kimage with the entry point and the segment list
\* copied from the caller
kimage_alloc_init(entry, nr_segments, segments, env) ==
    IF env.alloc_init # 0 THEN [ret |-> env.alloc_init, image |-> NoImage]
    ELSE [ret |-> 0,
          image |-> [NoImage EXCEPT !.start = entry,
                                    !.nr_segments = nr_segments,
                                    !.segment = segments]]

RECURSIVE SumMemsz(_, _)
SumMemsz(segment, n) ==
    IF n = 0 THEN 0 ELSE SumMemsz(segment, n - 1) + segment[n].memsz

\* The second loop of kimage_load_pe from segment i on; results collects
\* what kimage_load_pe_segment returned, which the loop does not look at.
RECURSIVE load_pe_segments(_, _, _, _, _)
load_pe_segments(img, i, nr_segments, fault, results) ==
    IF i > nr_segments THEN [image |-> img, results |-> results]
    ELSE LET r == kimage_load_pe_segment(img, img.segment[i],
                      IF fault.seg = i THEN fault ELSE NoFault)
         IN load_pe_segments(r.image, i + 1, nr_segments, fault,
                             Append(results, r.result))

\* kimage_load_pe up to the end of its second loop: the buffer allocated and
\* the segments copied
kimage_load_pe_copy(image0, nr_segments, env) ==
    LET image_size == SumMemsz(image0.segment, nr_segments)
        raw_image == vmalloc_exec(image_size, env)
        img == [image0 EXCEPT
                   !.raw_image = raw_image,
                   !.mem = [i \in 1..(IF raw_image = NULL64 THEN 0
                                      ELSE image_size) |-> Uninit],
                   !.raw_image_mem_base = image0.segment[1].mem,
                   !.raw_image_start =
                       Add64(raw_image,
                             N64(image0.start - image0.segment[1].mem))]
    IN load_pe_segments(img, 1, nr_segments, env.fault, <<>>)

kimage_load_pe(image0, nr_segments, wli, env) ==
    LET image_size == SumMemsz(image0.segment, nr_segments)
        raw_image == vmalloc_exec(image_size, env)
        loaded == kimage_load_pe_copy(image0, nr_segments, env)
        rel == parse_reloc_table(loaded.image, image0.segment[nr_segments])
    IN [image |-> rel.image,
        windows_loaded_image |->
            [wli EXCEPT !.ImageBase = raw_image, !.ImageSize = image_size,
                        !.SystemTable = "&fake_systab"],
        results |-> loaded.results, image_size |-> image_size,
        reloc |-> [log |-> rel.log, chunks |-> rel.chunks,
                   stray_read |-> rel.stray_read, runaway |-> rel.runaway,
                   before |-> loaded.image.mem]]

\* ------------------------------------------------------- protocol objects
BOOT_DEVICE_HANDLE == <<239, 190, 173, 222, 0, 0, 0, 0>>   \* 0xDEADBEEF

windows_loaded_image_0 ==
    [SystemTable |-> "NULL", DeviceHandle |-> BOOT_DEVICE_HANDLE,
     FilePath |-> NULL64, LoadOptions |-> "NULL", ImageBase |-> NULL64,
     ImageSize |-> 0]

\* efi_boot_service_hooks[0 .. 43], written here as element 1 .. 44
efi_boot_service_hooks ==
    <<"efi_hook_RaiseTPL", "efi_hook_RestoreTPL", "efi_hook_AllocatePages",
      "efi_hook_FreePages", "efi_hook_GetMemoryMap", "efi_hook_AllocatePool",
      "efi_hook_FreePool", "efi_hook_CreateEvent", "efi_hook_SetTimer",
      "efi_hook_WaitForEvent", "efi_hook_SignalEvent", "efi_hook_CloseEvent",
      "efi_hook_CheckEvent", "efi_hook_InstallProtocolInterface",
      "efi_hook_ReinstallProtocolInterface",
      "efi_hook_UninstallProtocolInterface", "efi_hook_HandleProtocol",
      "efi_hook_Reserved", "efi_hook_RegisterProtocolNotify",
      "efi_hook_LocateHandle", "efi_hook_LocateDevicePath",
      "efi_hook_InstallConfigurationTable", "efi_hook_LoadImage",
      "efi_hook_StartImage", "efi_hook_Exit", "efi_hook_UnloadImage",
      "efi_hook_ExitBootServices", "efi_hook_GetNextMonotonicCount",
      "efi_hook_Stall", "efi_hook_SetWatchdogTimer",
      "efi_hook_ConnectController", "efi_hook_DisconnectController",
      "efi_hook_OpenProtocol", "efi_hook_CloseProtocol",
      "efi_hook_OpenProtocolInformation", "efi_hook_ProtocolsPerHandle",
      "efi_hook_LocateHandleBuffer", "efi_hook_LocateProtocol",
      "efi_hook_InstallMultipleProtocolInterfaces",
      "efi_hook_UninstallMultipleProtocolInterfaces",
      "efi_hook_CalculateCrc32", "efi_hook_CopyMem", "efi_hook_SetMem",
      "efi_hook_CreateEventEx">>

\* The function pointers of efi_boot_services_t, raise_tpl first: the
\* structure has one for each element of efi_boot_service_hooks[44]
BootServiceSlots == 44

\* A pointer-sized slot after memset(boot_services, 0x43, ...)
Fill0x43 == "0x4343434343434343"

\* linux_bootservices = {0}
linux_bootservices_0 == [i \in 0 .. BootServiceSlots - 1 |-> "0"]

fake_systab_0 ==
    [con_in_handle |-> "0", con_out_handle |-> "0", runtime |-> "0",
     boottime |-> "0", services |-> linux_bootservices_0]

\* The assignment loop of hook_boot_services from slot boot_service_idx up
\* to top_of_bootservices
RECURSIVE AssignHooks(_, _)
AssignHooks(boot_services, boot_service_idx) ==
    IF boot_service_idx >= BootServiceSlots THEN boot_services
    ELSE AssignHooks([boot_services EXCEPT ![boot_service_idx] =
                          efi_boot_service_hooks[boot_service_idx + 1]],
                     boot_service_idx + 1)

hook_boot_services_FillOnly(systab) ==
    [systab EXCEPT !.con_in_handle = "CON_IN_HANDLE",
                   !.con_out_handle = "0xdeadbeefcafebabe",
                   !.runtime = "&runtime_services",
                   !.boottime = "&linux_bootservices",
                   !.services = [i \in DOMAIN @ |-> Fill0x43]]

\* hook_boot_services: the handles and the two service tables;
\* linux_bootservices is filled with 0x43 and then assigned slot by slot
hook_boot_services(systab) ==
    [systab EXCEPT !.con_in_handle = "CON_IN_HANDLE",
                   !.con_out_handle = "0xdeadbeefcafebabe",
                   !.runtime = "&runtime_services",
                   !.boottime = "&linux_bootservices",
                   !.services =
                       AssignHooks([i \in DOMAIN @ |-> Fill0x43], 0)]

\* ------------------------------------------------------- the GUID registry
\* An EFI_GUID is its sixteen bytes as they lie in memory: Data1, Data2 and
\* Data3 least significant byte first, then Data4.  GuidMappings is the
\* table of the source, entry for entry and in its order.
NUM_GUID_MAPPINGS == 441

GuidMappings == <<
    [Guid |-> <<46, 6, 160, 27, 121, 199, 130, 69, 133, 102, 51, 106, 232, 247, 143, 9>>, Name |-> "ResetVector"],
    [Guid |-> <<246, 206, 28, 223, 1, 243, 99, 74, 150, 97, 252, 96, 48, 220, 200, 128>>, Name |-> "SecMain"],
    [Guid |-> <<20, 91, 192, 82, 152, 11, 108, 73, 188, 59, 4, 181, 2, 17, 214, 128>>, Name |-> "PeiCore"],
    [Guid |-> <<79, 218, 58, 155, 86, 174, 36, 76, 141, 234, 240, 59, 117, 88, 174, 80>>, Name |-> "PcdPeim"],
    [Guid |-> <<66, 4, 97, 163, 159, 230, 243, 77, 130, 202, 35, 96, 196, 3, 26, 35>>, Name |-> "ReportStatusCodeRouterPei"],
    [Guid |-> <<55, 82, 34, 157, 1, 250, 76, 70, 169, 73, 186, 171, 192, 45, 49, 208>>, Name |-> "StatusCodeHandlerPei"],
    [Guid |-> <<37, 1, 215, 134, 163, 186, 150, 66, 166, 47, 96, 43, 235, 187, 144, 129>>, Name |-> "DxeIpl"],
    [Guid |-> <<109, 56, 44, 34, 188, 90, 180, 79, 177, 36, 251, 184, 36, 136, 172, 244>>, Name |-> "PlatformPei"],
    [Guid |-> <<176, 73, 229, 137, 254, 124, 157, 68, 155, 163, 16, 216, 178, 49, 45, 113>>, Name |-> "S3Resume2Pei"],
    [Guid |-> <<157, 235, 173, 237, 186, 221, 189, 72, 157, 34, 193, 193, 105, 200, 197, 198>>, Name |-> "CpuMpPei"],
    [Guid |-> <<120, 124, 81, 177, 24, 245, 229, 66, 178, 112, 244, 177, 244, 2, 229, 60>>, Name |-> "PvUefiPei"],
    [Guid |-> <<46, 227, 159, 125, 169, 166, 223, 76, 171, 255, 16, 204, 127, 34, 225, 201>>, Name |-> "TpmCommLib"],
    [Guid |-> <<70, 58, 196, 235, 172, 52, 7, 79, 167, 245, 165, 57, 70, 25, 54, 28>>, Name |-> "DxeTcgPhysicalPresenceLib"],
    [Guid |-> <<124, 4, 149, 197, 179, 112, 49, 71, 153, 204, 160, 20, 233, 86, 215, 167>>, Name |-> "Tpm12CommandLib"],
    [Guid |-> <<114, 118, 43, 188, 139, 164, 88, 77, 179, 158, 174, 227, 112, 123, 90, 35>>, Name |-> "Tpm12DeviceLibDTpm"],
    [Guid |-> <<217, 119, 139, 77, 35, 233, 248, 72, 176, 112, 64, 83, 215, 139, 126, 86>>, Name |-> "Tpm12DeviceLibTcg"],
    [Guid |-> <<244, 228, 140, 119, 189, 54, 231, 74, 184, 240, 16, 180, 32, 176, 209, 116>>, Name |-> "DxeTpm2MeasureBootLib"],
    [Guid |-> <<6, 203, 30, 96, 116, 120, 158, 72, 162, 128, 128, 87, 128, 246, 200, 97>>, Name |-> "DxeTrEEPhysicalPresenceLib"],
    [Guid |-> <<18, 199, 141, 21, 90, 241, 220, 68, 147, 187, 22, 117, 4, 91, 224, 102>>, Name |-> "HashLibBaseCryptoRouterDxe"],
    [Guid |-> <<186, 207, 203, 221, 235, 142, 138, 72, 150, 214, 9, 120, 49, 166, 229, 11>>, Name |-> "HashLibBaseCryptoRouterPei"],
    [Guid |-> <<50, 47, 87, 47, 229, 139, 104, 72, 189, 29, 116, 56, 173, 151, 220, 39>>, Name |-> "Tpm2CommandLib"],
    [Guid |-> <<133, 111, 203, 187, 60, 48, 185, 78, 129, 130, 175, 152, 212, 179, 2, 12>>, Name |-> "Tpm2DeviceLibTrEE"],
    [Guid |-> <<39, 51, 74, 229, 69, 163, 104, 64, 136, 66, 112, 172, 13, 81, 152, 85>>, Name |-> "Tpm2DeviceLibDTpm"],
    [Guid |-> <<90, 242, 107, 40, 195, 194, 140, 64, 179, 180, 37, 230, 117, 139, 115, 23>>, Name |-> "Tpm2InstanceLibDTpm"],
    [Guid |-> <<135, 157, 214, 195, 0, 82, 171, 74, 166, 219, 37, 105, 186, 26, 146, 252>>, Name |-> "Tpm2DeviceLibRouterDxe"],
    [Guid |-> <<4, 207, 205, 151, 142, 76, 254, 66, 128, 21, 17, 204, 138, 110, 157, 129>>, Name |-> "Tpm2DeviceLibRouterPei"],
    [Guid |-> <<213, 240, 23, 19, 66, 120, 92, 71, 177, 202, 110, 220, 32, 220, 190, 125>>, Name |-> "HashLibTpm2"],
    [Guid |-> <<35, 196, 214, 10, 50, 71, 243, 76, 156, 227, 10, 84, 22, 214, 52, 165>>, Name |-> "DxeRsa2048Sha256GuidedSectionExtractLib"],
    [Guid |-> <<145, 44, 95, 253, 120, 72, 7, 64, 187, 161, 27, 145, 221, 50, 84, 56>>, Name |-> "PeiRsa2048Sha256GuidedSectionExtractLib"],
    [Guid |-> <<180, 106, 122, 154, 166, 157, 164, 74, 144, 203, 109, 75, 121, 237, 167, 185>>, Name |-> "HashInstanceLibSha1"],
    [Guid |-> <<138, 121, 16, 88, 48, 237, 128, 64, 141, 215, 185, 102, 122, 116, 140, 2>>, Name |-> "HashInstanceLibSha256"],
    [Guid |-> <<114, 239, 193, 165, 121, 147, 112, 67, 180, 199, 15, 81, 38, 202, 195, 142>>, Name |-> "TrEEConfigPei"],
    [Guid |-> <<40, 25, 90, 202, 35, 101, 157, 64, 169, 254, 93, 204, 135, 56, 114, 34>>, Name |-> "TrEEPei"],
    [Guid |-> <<227, 70, 121, 42, 178, 26, 169, 73, 172, 203, 198, 39, 81, 57, 193, 165>>, Name |-> "TrEEDxe"],
    [Guid |-> <<77, 253, 65, 49, 2, 234, 112, 74, 155, 206, 151, 238, 131, 115, 25, 172>>, Name |-> "TrEEConfigDxe"],
    [Guid |-> <<224, 83, 46, 22, 151, 101, 217, 64, 150, 209, 141, 19, 240, 246, 86, 228>>, Name |-> "TrEEAcpi"],
    [Guid |-> <<127, 203, 162, 214, 24, 106, 47, 78, 180, 59, 153, 32, 167, 51, 112, 10>>, Name |-> "DxeCore"],
    [Guid |-> <<216, 227, 60, 217, 235, 167, 48, 71, 140, 142, 204, 70, 106, 158, 204, 60>>, Name |-> "ReportStatusCodeRouterRuntimeDxe"],
    [Guid |-> <<239, 4, 32, 108, 14, 78, 228, 75, 177, 76, 52, 14, 180, 170, 88, 145>>, Name |-> "StatusCodeHandlerRuntimeDxe"],
    [Guid |-> <<87, 114, 207, 128, 171, 135, 249, 71, 163, 254, 213, 11, 118, 216, 149, 65>>, Name |-> "PcdDxe"],
    [Guid |-> <<196, 248, 1, 182, 183, 67, 132, 71, 149, 177, 244, 34, 108, 180, 12, 238>>, Name |-> "RuntimeDxe"],
    [Guid |-> <<233, 151, 6, 248, 214, 127, 101, 70, 134, 70, 136, 227, 62, 247, 29, 252>>, Name |-> "SecurityStubDxe"],
    [Guid |-> <<208, 109, 172, 19, 208, 115, 212, 17, 176, 107, 0, 170, 0, 189, 109, 231>>, Name |-> "EbcDxe"],
    [Guid |-> <<8, 66, 202, 121, 161, 187, 154, 74, 132, 86, 225, 230, 106, 129, 72, 78>>, Name |-> "Legacy8259"],
    [Guid |-> <<231, 31, 155, 161, 188, 193, 248, 73, 135, 95, 84, 165, 213, 66, 68, 63>>, Name |-> "CpuIo2Dxe"],
    [Guid |-> <<134, 72, 30, 26, 23, 149, 14, 68, 159, 222, 59, 228, 76, 238, 33, 54>>, Name |-> "CpuDxe"],
    [Guid |-> <<236, 93, 118, 242, 65, 107, 213, 17, 142, 113, 0, 144, 39, 7, 179, 94>>, Name |-> "Timer"],
    [Guid |-> <<196, 122, 105, 246, 118, 167, 225, 78, 182, 67, 31, 239, 242, 182, 21, 187>>, Name |-> "IncompatiblePciDeviceSupportDxe"],
    [Guid |-> <<246, 237, 166, 17, 190, 169, 109, 66, 166, 204, 178, 47, 229, 29, 146, 36>>, Name |-> "PciHotPlugInitDxe"],
    [Guid |-> <<112, 183, 143, 18, 121, 94, 118, 65, 158, 81, 155, 178, 104, 161, 125, 209>>, Name |-> "PciHostBridgeDxe"],
    [Guid |-> <<4, 0, 184, 147, 179, 159, 212, 17, 154, 58, 0, 144, 39, 63, 193, 77>>, Name |-> "PciBusDxe"],
    [Guid |-> <<199, 228, 40, 75, 54, 255, 16, 78, 147, 207, 168, 33, 89, 231, 119, 197>>, Name |-> "ResetSystemRuntimeDxe"],
    [Guid |-> <<115, 153, 51, 200, 99, 165, 97, 69, 184, 88, 216, 71, 111, 157, 239, 196>>, Name |-> "Metronome"],
    [Guid |-> <<101, 123, 141, 55, 169, 141, 115, 71, 182, 228, 164, 120, 38, 168, 51, 225>>, Name |-> "PcRtc"],
    [Guid |-> <<124, 237, 248, 235, 209, 13, 135, 71, 132, 241, 244, 141, 83, 125, 202, 207>>, Name |-> "DriverHealthManagerDxe"],
    [Guid |-> <<74, 148, 51, 109, 117, 236, 85, 72, 165, 77, 128, 156, 117, 36, 31, 108>>, Name |-> "BdsDxe"],
    [Guid |-> <<238, 32, 77, 247, 231, 55, 252, 72, 151, 247, 155, 16, 71, 116, 156, 105>>, Name |-> "LogoDxe"],
    [Guid |-> <<33, 170, 44, 70, 20, 118, 3, 69, 131, 110, 138, 182, 244, 102, 35, 49>>, Name |-> "UiApp"],
    [Guid |-> <<175, 151, 203, 51, 51, 108, 66, 76, 152, 107, 7, 88, 31, 163, 102, 212>>, Name |-> "BlockMmioToBlockIoDxe"],
    [Guid |-> <<57, 59, 221, 131, 175, 124, 172, 79, 165, 66, 224, 80, 183, 103, 227, 167>>, Name |-> "VirtioPciDeviceDxe"],
    [Guid |-> <<12, 246, 112, 1, 64, 29, 81, 70, 149, 109, 240, 189, 152, 121, 213, 39>>, Name |-> "Virtio10"],
    [Guid |-> <<251, 45, 217, 17, 169, 60, 147, 79, 186, 46, 71, 128, 237, 62, 3, 181>>, Name |-> "VirtioBlkDxe"],
    [Guid |-> <<244, 212, 181, 250, 192, 131, 175, 74, 132, 128, 68, 45, 17, 223, 108, 234>>, Name |-> "VirtioScsiDxe"],
    [Guid |-> <<13, 111, 226, 88, 172, 203, 186, 75, 183, 15, 24, 34, 20, 21, 102, 90>>, Name |-> "VirtioRngDxe"],
    [Guid |-> <<80, 159, 86, 207, 68, 222, 84, 79, 180, 215, 244, 174, 37, 205, 165, 153>>, Name |-> "XenIoPciDxe"],
    [Guid |-> <<186, 200, 94, 86, 132, 164, 227, 17, 128, 43, 184, 172, 111, 125, 101, 230>>, Name |-> "XenBusDxe"],
    [Guid |-> <<234, 135, 36, 140, 243, 154, 227, 17, 185, 102, 184, 172, 111, 125, 101, 230>>, Name |-> "XenPvBlkDxe"],
    [Guid |-> <<127, 214, 153, 240, 174, 113, 54, 76, 178, 163, 220, 235, 14, 178, 183, 216>>, Name |-> "WatchdogTimer"],
    [Guid |-> <<114, 130, 96, 173, 127, 208, 100, 73, 128, 30, 123, 211, 183, 136, 134, 82>>, Name |-> "MonotonicCounterRuntimeDxe"],
    [Guid |-> <<10, 127, 133, 66, 242, 19, 33, 75, 138, 35, 83, 211, 247, 20, 184, 64>>, Name |-> "CapsuleRuntimeDxe"],
    [Guid |-> <<153, 243, 204, 81, 223, 79, 85, 78, 164, 91, 225, 35, 248, 77, 69, 106>>, Name |-> "ConPlatformDxe"],
    [Guid |-> <<236, 220, 142, 64, 109, 207, 124, 71, 165, 168, 180, 132, 78, 61, 226, 129>>, Name |-> "ConSplitterDxe"],
    [Guid |-> <<40, 12, 203, 204, 36, 75, 213, 17, 154, 90, 0, 144, 39, 63, 193, 77>>, Name |-> "GraphicsConsoleDxe"],
    [Guid |-> <<6, 57, 134, 158, 15, 164, 117, 72, 151, 127, 91, 147, 255, 35, 127, 198>>, Name |-> "TerminalDxe"],
    [Guid |-> <<206, 15, 104, 155, 107, 173, 58, 79, 182, 11, 245, 152, 153, 0, 52, 67>>, Name |-> "DevicePathDxe"],
    [Guid |-> <<28, 166, 228, 121, 115, 237, 18, 67, 148, 254, 227, 231, 86, 51, 98, 169>>, Name |-> "PrintDxe"],
    [Guid |-> <<180, 247, 56, 107, 152, 173, 233, 64, 144, 147, 172, 162, 181, 162, 83, 196>>, Name |-> "DiskIoDxe"],
    [Guid |-> <<158, 243, 161, 31, 255, 254, 174, 74, 189, 123, 56, 160, 112, 163, 182, 9>>, Name |-> "PartitionDxe"],
    [Guid |-> <<244, 63, 160, 40, 179, 18, 5, 67, 164, 23, 187, 26, 79, 148, 8, 30>>, Name |-> "RamDiskDxe"],
    [Guid |-> <<182, 175, 59, 205, 251, 80, 232, 79, 142, 78, 171, 116, 210, 193, 166, 0>>, Name |-> "EnglishDxe"],
    [Guid |-> <<254, 120, 21, 150, 183, 182, 195, 68, 175, 53, 107, 199, 5, 205, 43, 31>>, Name |-> "Fat"],
    [Guid |-> <<196, 204, 103, 1, 247, 208, 33, 79, 163, 239, 158, 100, 183, 205, 206, 139>>, Name |-> "ScsiBus"],
    [Guid |-> <<34, 227, 102, 10, 64, 55, 206, 76, 173, 98, 189, 23, 44, 236, 202, 53>>, Name |-> "ScsiDisk"],
    [Guid |-> <<216, 34, 23, 2, 43, 82, 121, 64, 133, 42, 254, 68, 194, 193, 63, 73>>, Name |-> "SataController"],
    [Guid |-> <<180, 60, 82, 94, 151, 211, 134, 73, 135, 189, 166, 221, 139, 34, 244, 85>>, Name |-> "AtaAtapiPassThruDxe"],
    [Guid |-> <<90, 20, 223, 25, 212, 177, 63, 69, 133, 7, 56, 129, 102, 118, 215, 246>>, Name |-> "AtaBusDxe"],
    [Guid |-> <<244, 189, 227, 91, 207, 83, 163, 70, 166, 169, 115, 195, 74, 110, 94, 227>>, Name |-> "NvmExpressDxe"],
    [Guid |-> <<98, 77, 140, 52, 189, 191, 130, 72, 158, 206, 200, 11, 177, 196, 120, 59>>, Name |-> "HiiDatabase"],
    [Guid |-> <<254, 66, 243, 235, 211, 177, 248, 78, 149, 124, 128, 72, 96, 111, 246, 113>>, Name |-> "SetupBrowser"],
    [Guid |-> <<133, 234, 96, 230, 142, 5, 85, 75, 165, 75, 240, 47, 131, 162, 71, 7>>, Name |-> "DisplayEngine"],
    [Guid |-> <<50, 192, 181, 150, 76, 223, 110, 75, 130, 50, 67, 141, 207, 68, 141, 14>>, Name |-> "NullMemoryTestDxe"],
    [Guid |-> <<72, 41, 117, 227, 161, 185, 112, 71, 144, 196, 223, 65, 195, 137, 134, 190>>, Name |-> "QemuVideoDxe"],
    [Guid |-> <<148, 155, 9, 214, 151, 205, 197, 76, 135, 20, 127, 99, 18, 112, 26, 138>>, Name |-> "VirtioGpuDxe"],
    [Guid |-> <<234, 43, 249, 76, 195, 123, 55, 69, 175, 38, 22, 197, 214, 172, 113, 187>>, Name |-> "PvUefiRuntimeDxe"],
    [Guid |-> <<34, 236, 160, 56, 231, 251, 17, 73, 139, 193, 23, 110, 13, 108, 29, 189>>, Name |-> "IsaAcpi"],
    [Guid |-> <<181, 18, 6, 36, 99, 160, 212, 17, 154, 58, 0, 144, 39, 63, 193, 77>>, Name |-> "IsaBusDxe"],
    [Guid |-> <<3, 0, 184, 147, 179, 159, 212, 17, 154, 58, 0, 144, 39, 63, 193, 77>>, Name |-> "IsaSerialDxe"],
    [Guid |-> <<118, 35, 200, 61, 123, 99, 166, 64, 168, 252, 165, 101, 65, 127, 44, 56>>, Name |-> "Ps2KeyboardDxe"],
    [Guid |-> <<132, 130, 189, 10, 163, 109, 22, 70, 151, 26, 131, 165, 20, 128, 103, 186>>, Name |-> "IsaFloppyDxe"],
    [Guid |-> <<66, 134, 216, 249, 55, 7, 188, 73, 129, 181, 104, 137, 205, 87, 217, 234>>, Name |-> "SmbiosDxe"],
    [Guid |-> <<93, 70, 16, 65, 243, 95, 75, 79, 181, 128, 36, 237, 13, 6, 116, 122>>, Name |-> "SmbiosPlatformDxe"],
    [Guid |-> <<44, 228, 34, 150, 56, 142, 8, 74, 158, 143, 84, 247, 132, 101, 47, 107>>, Name |-> "AcpiTableDxe"],
    [Guid |-> <<49, 3, 151, 73, 250, 227, 55, 70, 154, 188, 59, 120, 104, 103, 105, 112>>, Name |-> "AcpiPlatform"],
    [Guid |-> <<37, 78, 55, 126, 1, 142, 238, 79, 135, 242, 57, 12, 35, 198, 6, 205>>, Name |-> "PlatformAcpiTables"],
    [Guid |-> <<187, 133, 206, 189, 170, 251, 78, 79, 146, 100, 80, 26, 44, 36, 149, 129>>, Name |-> "S3SaveStateDxe"],
    [Guid |-> <<139, 86, 32, 250, 139, 84, 43, 75, 129, 239, 27, 160, 141, 74, 60, 236>>, Name |-> "BootScriptExecutorDxe"],
    [Guid |-> <<117, 39, 230, 184, 10, 187, 240, 67, 168, 67, 91, 232, 177, 79, 140, 205>>, Name |-> "BootGraphicsResourceTableDxe"],
    [Guid |-> <<234, 54, 244, 162, 39, 161, 248, 78, 149, 124, 128, 72, 96, 111, 246, 112>>, Name |-> "SnpDxe"],
    [Guid |-> <<115, 249, 16, 162, 157, 34, 77, 79, 170, 55, 152, 149, 230, 201, 234, 186>>, Name |-> "DpcDxe"],
    [Guid |-> <<199, 191, 91, 2, 169, 230, 139, 75, 130, 173, 104, 21, 161, 174, 175, 74>>, Name |-> "MnpDxe"],
    [Guid |-> <<99, 24, 246, 228, 44, 254, 86, 75, 168, 244, 8, 81, 155, 196, 57, 223>>, Name |-> "VlanConfigDxe"],
    [Guid |-> <<147, 63, 157, 82, 233, 232, 115, 78, 177, 225, 189, 246, 169, 213, 1, 19>>, Name |-> "ArpDxe"],
    [Guid |-> <<24, 71, 115, 148, 188, 11, 251, 71, 150, 165, 238, 122, 90, 230, 162, 173>>, Name |-> "Dhcp4Dxe"],
    [Guid |-> <<243, 161, 177, 159, 113, 59, 36, 67, 179, 154, 116, 92, 187, 1, 95, 255>>, Name |-> "Ip4Dxe"],
    [Guid |-> <<184, 65, 54, 220, 168, 47, 211, 78, 188, 31, 249, 150, 42, 3, 69, 75>>, Name |-> "Mtftp4Dxe"],
    [Guid |-> <<171, 99, 105, 109, 109, 144, 101, 74, 167, 202, 189, 64, 229, 214, 175, 43>>, Name |-> "Udp4Dxe"],
    [Guid |-> <<171, 99, 105, 109, 109, 144, 101, 74, 167, 202, 189, 64, 229, 214, 175, 77>>, Name |-> "Tcp4Dxe"],
    [Guid |-> <<181, 234, 29, 59, 93, 199, 46, 68, 146, 56, 142, 47, 251, 98, 176, 187>>, Name |-> "UefiPxe4BcDxe"],
    [Guid |-> <<45, 183, 121, 69, 196, 126, 212, 77, 132, 134, 8, 60, 134, 177, 130, 167>>, Name |-> "IScsi4Dxe"],
    [Guid |-> <<75, 219, 44, 169, 241, 130, 11, 78, 165, 22, 138, 101, 93, 55, 21, 36>>, Name |-> "VirtioNetDxe"],
    [Guid |-> <<250, 46, 185, 47, 224, 46, 174, 75, 158, 182, 116, 100, 18, 94, 30, 247>>, Name |-> "UhciDxe"],
    [Guid |-> <<14, 67, 254, 189, 42, 143, 176, 77, 153, 145, 111, 133, 101, 148, 119, 126>>, Name |-> "EhciDxe"],
    [Guid |-> <<145, 14, 245, 183, 89, 167, 44, 65, 173, 228, 220, 208, 62, 127, 124, 40>>, Name |-> "XhciDxe"],
    [Guid |-> <<183, 18, 6, 36, 99, 160, 212, 17, 154, 58, 0, 144, 39, 63, 193, 77>>, Name |-> "UsbBusDxe"],
    [Guid |-> <<207, 98, 46, 45, 207, 158, 183, 67, 130, 25, 148, 231, 252, 113, 61, 254>>, Name |-> "UsbKbDxe"],
    [Guid |-> <<167, 180, 180, 159, 192, 66, 205, 75, 133, 64, 155, 204, 103, 17, 248, 62>>, Name |-> "UsbMassStorageDxe"],
    [Guid |-> <<237, 178, 4, 11, 28, 134, 205, 66, 162, 47, 195, 170, 250, 204, 184, 150>>, Name |-> "BiosVideoDxe"],
    [Guid |-> <<92, 161, 34, 241, 11, 193, 84, 77, 143, 72, 96, 244, 240, 109, 209, 173>>, Name |-> "LegacyBiosDxe"],
    [Guid |-> <<243, 180, 71, 21, 138, 62, 239, 79, 129, 200, 50, 142, 214, 71, 171, 26>>, Name |-> "Csm16"],
    [Guid |-> <<131, 165, 4, 124, 62, 158, 28, 79, 173, 101, 224, 82, 104, 208, 180, 209>>, Name |-> "Shell"],
    [Guid |-> <<223, 197, 220, 217, 7, 64, 94, 67, 144, 152, 137, 112, 147, 85, 4, 178>>, Name |-> "PlatformDxe"],
    [Guid |-> <<194, 186, 60, 115, 63, 178, 146, 75, 188, 142, 251, 1, 206, 89, 7, 183>>, Name |-> "FvbServicesRuntimeDxe"],
    [Guid |-> <<96, 43, 220, 34, 64, 254, 172, 66, 176, 31, 58, 177, 250, 217, 170, 216>>, Name |-> "EmuVariableFvbRuntimeDxe"],
    [Guid |-> <<118, 234, 92, 254, 114, 79, 232, 73, 152, 111, 44, 216, 153, 223, 254, 93>>, Name |-> "FaultTolerantWriteDxe"],
    [Guid |-> <<190, 163, 167, 64, 103, 30, 134, 75, 146, 196, 114, 227, 211, 42, 32, 122>>, Name |-> "GSetup"],
    [Guid |-> <<59, 111, 180, 211, 65, 212, 68, 18, 154, 18, 0, 18, 39, 63, 193, 77>>, Name |-> "gEfiXenInfoGuid"],
    [Guid |-> <<38, 82, 116, 62, 24, 152, 182, 69, 162, 172, 215, 205, 14, 139, 162, 188>>, Name |-> "gEfiUsb2HcProtocolGuid"],
    [Guid |-> <<75, 162, 124, 234, 213, 222, 173, 77, 163, 137, 191, 130, 126, 143, 155, 56>>, Name |-> "gEfiPeiFirmwareVolumeInfo2PpiGuid"],
    [Guid |-> <<93, 206, 232, 10, 72, 228, 55, 68, 168, 215, 235, 245, 241, 148, 247, 49>>, Name |-> "gEfiDxeIplPpiGuid"],
    [Guid |-> <<67, 59, 15, 12, 222, 68, 7, 73, 180, 120, 34, 95, 111, 98, 137, 220>>, Name |-> "gUsbKeyboardLayoutPackageGuid"],
    [Guid |-> <<10, 204, 69, 27, 106, 21, 138, 66, 175, 98, 73, 134, 77, 160, 230, 230>>, Name |-> "gPeiAprioriFileNameGuid"],
    [Guid |-> <<163, 88, 54, 120, 114, 65, 33, 68, 162, 153, 224, 9, 7, 156, 12, 180>>, Name |-> "gEfiLegacyBiosPlatformProtocolGuid"],
    [Guid |-> <<169, 58, 226, 219, 69, 163, 151, 75, 133, 182, 178, 38, 241, 97, 115, 137>>, Name |-> "gEfiTemporaryRamSupportPpiGuid"],
    [Guid |-> <<78, 190, 121, 3, 6, 215, 125, 67, 176, 55, 237, 184, 47, 183, 114, 164>>, Name |-> "gEfiDevicePathUtilitiesProtocolGuid"],
    [Guid |-> <<113, 153, 3, 147, 69, 133, 4, 75, 180, 94, 50, 235, 131, 38, 4, 14>>, Name |-> "gEfiHiiPlatformSetupFormsetGuid"],
    [Guid |-> <<33, 91, 78, 150, 89, 100, 210, 17, 142, 57, 0, 160, 201, 105, 114, 59>>, Name |-> "gEfiBlockIoProtocolGuid"],
    [Guid |-> <<88, 141, 57, 239, 253, 157, 3, 65, 191, 148, 120, 198, 244, 254, 113, 47>>, Name |-> "gEfiPeiResetPpiGuid"],
    [Guid |-> <<241, 231, 157, 48, 94, 127, 206, 74, 180, 156, 83, 27, 229, 170, 149, 239>>, Name |-> "gEfiGenericMemTestProtocolGuid"],
    [Guid |-> <<147, 110, 87, 9, 63, 109, 210, 17, 142, 57, 0, 160, 201, 105, 114, 59>>, Name |-> "gEfiFileSystemInfoGuid"],
    [Guid |-> <<145, 241, 97, 173, 95, 174, 14, 76, 185, 250, 232, 105, 210, 136, 198, 79>>, Name |-> "gEfiCpuIo2ProtocolGuid"],
    [Guid |-> <<112, 247, 111, 243, 225, 167, 207, 66, 158, 210, 86, 240, 242, 113, 244, 76>>, Name |-> "gEfiManagedNetworkServiceBindingProtocolGuid"],
    [Guid |-> <<61, 100, 148, 248, 73, 196, 209, 66, 142, 168, 133, 189, 216, 198, 91, 222>>, Name |-> "gEfiPeiMemoryDiscoveredPpiGuid"],
    [Guid |-> <<24, 151, 33, 138, 245, 78, 97, 71, 145, 200, 192, 240, 75, 218, 158, 86>>, Name |-> "gEfiDhcp4ProtocolGuid"],
    [Guid |-> <<161, 49, 27, 91, 98, 149, 210, 17, 142, 63, 0, 160, 201, 105, 114, 59>>, Name |-> "gEfiLoadedImageProtocolGuid"],
    [Guid |-> <<3, 230, 196, 3, 40, 172, 211, 17, 154, 45, 0, 144, 39, 63, 193, 77>>, Name |-> "gEfiPxeBaseCodeProtocolGuid"],
    [Guid |-> <<68, 21, 253, 242, 148, 151, 44, 74, 153, 46, 229, 187, 207, 32, 227, 148>>, Name |-> "gEfiSmbios3TableGuid"],
    [Guid |-> <<61, 30, 154, 219, 203, 69, 187, 74, 133, 59, 229, 56, 127, 219, 46, 45>>, Name |-> "gEfiLegacyBiosProtocolGuid"],
    [Guid |-> <<209, 110, 68, 91, 11, 227, 170, 79, 135, 26, 54, 84, 236, 163, 96, 128>>, Name |-> "gEfiIp4Config2ProtocolGuid"],
    [Guid |-> <<169, 79, 100, 143, 80, 232, 177, 77, 156, 226, 11, 68, 105, 142, 141, 164>>, Name |-> "gEfiFirmwareVolumeBlock2ProtocolGuid"],
    [Guid |-> <<225, 180, 223, 183, 47, 5, 159, 68, 135, 190, 152, 24, 252, 145, 183, 51>>, Name |-> "gEfiRuntimeArchProtocolGuid"],
    [Guid |-> <<207, 143, 158, 165, 160, 189, 187, 67, 144, 177, 211, 115, 46, 202, 168, 119>>, Name |-> "gEfiScsiPassThruProtocolGuid"],
    [Guid |-> <<95, 66, 75, 197, 121, 170, 180, 72, 152, 31, 153, 139, 60, 75, 100, 28>>, Name |-> "gTrEEConfigFormSetGuid"],
    [Guid |-> <<16, 0, 146, 250, 133, 103, 65, 73, 182, 236, 73, 140, 87, 159, 22, 10>>, Name |-> "gVirtioDeviceProtocolGuid"],
    [Guid |-> <<233, 41, 190, 155, 161, 253, 236, 65, 173, 82, 69, 34, 19, 116, 45, 46>>, Name |-> "gEdkiiFormDisplayEngineProtocolGuid"],
    [Guid |-> <<28, 197, 53, 114, 128, 12, 171, 76, 135, 172, 59, 8, 74, 99, 4, 177>>, Name |-> "gOvmfPlatformConfigGuid"],
    [Guid |-> <<214, 104, 47, 43, 210, 12, 207, 68, 142, 139, 187, 162, 11, 27, 91, 117>>, Name |-> "gEfiUsbIoProtocolGuid"],
    [Guid |-> <<113, 232, 104, 136, 241, 228, 211, 17, 188, 34, 0, 128, 199, 60, 136, 129>>, Name |-> "gEfiAcpiTableGuid"],
    [Guid |-> <<90, 239, 141, 21, 86, 246, 156, 65, 176, 39, 122, 49, 146, 192, 121, 210>>, Name |-> "gShellVariableGuid"],
    [Guid |-> <<48, 45, 157, 235, 136, 45, 211, 17, 154, 22, 0, 144, 39, 63, 193, 77>>, Name |-> "gEfiAcpi10TableGuid"],
    [Guid |-> <<193, 177, 237, 73, 33, 191, 97, 71, 187, 18, 235, 0, 49, 170, 187, 57>>, Name |-> "gEfiPeiFirmwareVolumeInfoPpiGuid"],
    [Guid |-> <<101, 87, 196, 108, 228, 204, 253, 66, 188, 86, 1, 26, 170, 198, 201, 168>>, Name |-> "gEfiPeiReset2PpiGuid"],
    [Guid |-> <<214, 217, 83, 0, 89, 38, 153, 69, 162, 107, 239, 69, 54, 230, 49, 169>>, Name |-> "gShellAliasGuid"],
    [Guid |-> <<47, 226, 129, 112, 198, 202, 83, 64, 148, 104, 103, 87, 130, 207, 136, 229>>, Name |-> "gEfiEventDxeDispatchGuid"],
    [Guid |-> <<111, 214, 162, 36, 221, 238, 134, 64, 144, 66, 242, 110, 71, 151, 238, 105>>, Name |-> "gRootBridgesConnectedEventGroupGuid"],
    [Guid |-> <<236, 244, 210, 59, 36, 229, 228, 70, 169, 216, 81, 1, 23, 66, 85, 98>>, Name |-> "gEfiHiiStandardFormGuid"],
    [Guid |-> <<122, 150, 206, 2, 126, 221, 252, 79, 158, 231, 129, 12, 240, 71, 8, 128>>, Name |-> "gEfiEndOfDxeEventGroupGuid"],
    [Guid |-> <<190, 52, 128, 207, 104, 103, 139, 77, 183, 57, 124, 206, 104, 58, 159, 190>>, Name |-> "gEfiPciHostBridgeResourceAllocationProtocolGuid"],
    [Guid |-> <<44, 119, 122, 16, 225, 213, 212, 17, 154, 70, 0, 144, 39, 63, 193, 77>>, Name |-> "gEfiComponentNameProtocolGuid"],
    [Guid |-> <<114, 36, 123, 167, 130, 226, 159, 78, 162, 69, 194, 192, 226, 123, 188, 193>>, Name |-> "gEfiBlockIo2ProtocolGuid"],
    [Guid |-> <<97, 135, 25, 92, 168, 22, 105, 78, 151, 44, 137, 214, 121, 84, 248, 29>>, Name |-> "gEfiDriverSupportedEfiVersionProtocolGuid"],
    [Guid |-> <<190, 0, 232, 47, 1, 143, 166, 74, 148, 107, 215, 19, 136, 225, 131, 63>>, Name |-> "gEfiMtftp4ServiceBindingProtocolGuid"],
    [Guid |-> <<182, 229, 1, 139, 25, 79, 232, 70, 171, 147, 28, 83, 103, 27, 144, 204>>, Name |-> "gEfiTpmDeviceInstanceTpm12Guid"],
    [Guid |-> <<60, 104, 171, 206, 86, 236, 45, 74, 169, 6, 64, 83, 250, 78, 156, 22>>, Name |-> "gEfiTemporaryRamDonePpiGuid"],
    [Guid |-> <<90, 242, 107, 40, 195, 194, 140, 64, 179, 180, 37, 230, 117, 139, 115, 23>>, Name |-> "gEfiTpmDeviceInstanceTpm20DtpmGuid"],
    [Guid |-> <<127, 166, 50, 212, 220, 20, 75, 72, 179, 187, 63, 2, 145, 132, 147, 39>>, Name |-> "gEfiDiskInfoProtocolGuid"],
    [Guid |-> <<230, 65, 18, 26, 25, 143, 169, 65, 188, 14, 232, 239, 57, 224, 101, 70>>, Name |-> "gEfiHiiImageExProtocolGuid"],
    [Guid |-> <<237, 213, 203, 109, 45, 232, 68, 76, 189, 161, 113, 148, 25, 154, 217, 42>>, Name |-> "gEfiFmpCapsuleGuid"],
    [Guid |-> <<226, 104, 86, 30, 129, 132, 212, 17, 188, 241, 0, 128, 199, 60, 136, 129>>, Name |-> "gEfiVariableArchProtocolGuid"],
    [Guid |-> <<58, 141, 249, 14, 51, 62, 122, 73, 164, 1, 119, 190, 62, 183, 79, 56>>, Name |-> "gEfiAcpiS3ContextGuid"],
    [Guid |-> <<24, 248, 65, 100, 98, 99, 68, 78, 181, 112, 125, 186, 49, 221, 36, 83>>, Name |-> "gEfiVariableWriteArchProtocolGuid"],
    [Guid |-> <<96, 195, 212, 185, 251, 188, 155, 79, 146, 152, 83, 193, 54, 152, 34, 88>>, Name |-> "gEfiFormBrowser2ProtocolGuid"],
    [Guid |-> <<145, 58, 179, 122, 229, 172, 38, 67, 181, 114, 231, 238, 51, 211, 159, 22>>, Name |-> "gEfiManagedNetworkProtocolGuid"],
    [Guid |-> <<83, 139, 168, 44, 150, 210, 128, 64, 164, 165, 202, 217, 186, 226, 75, 9>>, Name |-> "gLoadFixedAddressConfigurationTableGuid"],
    [Guid |-> <<38, 233, 190, 120, 47, 105, 253, 72, 158, 219, 1, 66, 46, 240, 215, 171>>, Name |-> "gEfiEventMemoryMapChangeGuid"],
    [Guid |-> <<116, 105, 217, 15, 170, 35, 220, 76, 185, 203, 152, 209, 119, 80, 50, 42>>, Name |-> "gEfiHiiStringProtocolGuid"],
    [Guid |-> <<68, 189, 226, 126, 160, 61, 212, 17, 154, 56, 0, 144, 39, 63, 193, 77>>, Name |-> "gEfiIsaIoProtocolGuid"],
    [Guid |-> <<80, 166, 94, 96, 92, 198, 225, 66, 186, 128, 145, 165, 42, 182, 24, 198>>, Name |-> "gEfiEndOfPeiSignalPpiGuid"],
    [Guid |-> <<118, 199, 181, 92, 213, 96, 238, 69, 136, 60, 69, 39, 8, 205, 116, 63>>, Name |-> "gEfiLoadPeImageProtocolGuid"],
    [Guid |-> <<109, 121, 65, 245, 46, 166, 84, 73, 167, 117, 149, 132, 246, 27, 156, 221>>, Name |-> "gEfiTcgProtocolGuid"],
    [Guid |-> <<109, 11, 139, 200, 252, 13, 167, 73, 156, 180, 73, 7, 75, 76, 58, 120>>, Name |-> "gEfiStorageSecurityCommandProtocolGuid"],
    [Guid |-> <<60, 25, 125, 60, 44, 104, 20, 76, 166, 143, 85, 45, 234, 79, 67, 126>>, Name |-> "gPcdDataBaseSignatureGuid"],
    [Guid |-> <<69, 73, 50, 89, 68, 236, 13, 76, 177, 205, 157, 177, 57, 223, 7, 12>>, Name |-> "gEfiIScsiInitiatorNameProtocolGuid"],
    [Guid |-> <<69, 210, 228, 120, 77, 205, 5, 74, 162, 186, 71, 67, 232, 108, 252, 171>>, Name |-> "gEfiSecurityPolicyProtocolGuid"],
    [Guid |-> <<101, 6, 114, 0, 235, 103, 153, 74, 186, 247, 211, 195, 58, 28, 124, 201>>, Name |-> "gEfiTcp4ServiceBindingProtocolGuid"],
    [Guid |-> <<89, 107, 12, 166, 89, 228, 93, 66, 156, 105, 11, 204, 156, 178, 125, 129>>, Name |-> "gEfiGetPcdInfoPpiGuid"],
    [Guid |-> <<141, 177, 115, 31, 48, 70, 193, 67, 161, 222, 111, 128, 133, 93, 125, 164>>, Name |-> "gEdkiiFormBrowserExProtocolGuid"],
    [Guid |-> <<253, 204, 234, 170, 123, 242, 23, 76, 182, 16, 117, 202, 31, 45, 251, 82>>, Name |-> "gEfiEbcVmTestProtocolGuid"],
    [Guid |-> <<203, 178, 25, 215, 58, 61, 150, 69, 163, 188, 218, 208, 14, 103, 101, 111>>, Name |-> "gEfiImageSecurityDatabaseGuid"],
    [Guid |-> <<126, 21, 98, 188, 51, 62, 236, 79, 153, 32, 45, 59, 54, 215, 80, 223>>, Name |-> "gEfiLoadedImageDevicePathProtocolGuid"],
    [Guid |-> <<174, 142, 28, 21, 44, 127, 44, 71, 158, 84, 152, 40, 25, 79, 106, 136>>, Name |-> "gEfiDiskIo2ProtocolGuid"],
    [Guid |-> <<79, 200, 250, 110, 176, 10, 71, 71, 129, 190, 133, 85, 98, 89, 4, 73>>, Name |-> "gXenIoProtocolGuid"],
    [Guid |-> <<213, 173, 139, 10, 184, 3, 25, 77, 177, 40, 123, 143, 14, 218, 165, 150>>, Name |-> "gEfiConfigKeywordHandlerProtocolGuid"],
    [Guid |-> <<199, 11, 83, 101, 89, 163, 15, 65, 176, 16, 90, 173, 199, 236, 43, 98>>, Name |-> "gEfiTcp4ProtocolGuid"],
    [Guid |-> <<231, 235, 74, 145, 53, 70, 155, 69, 170, 28, 17, 226, 25, 176, 58, 16>>, Name |-> "gEfiMdePkgTokenSpaceGuid"],
    [Guid |-> <<222, 169, 66, 144, 220, 35, 56, 74, 150, 251, 122, 222, 208, 128, 81, 106>>, Name |-> "gEfiGraphicsOutputProtocolGuid"],
    [Guid |-> <<186, 52, 173, 5, 2, 111, 20, 66, 149, 46, 77, 160, 57, 142, 43, 185>>, Name |-> "gEfiDxeServicesTableGuid"],
    [Guid |-> <<179, 204, 186, 38, 66, 111, 212, 17, 188, 231, 0, 128, 199, 60, 136, 129>>, Name |-> "gEfiTimerArchProtocolGuid"],
    [Guid |-> <<249, 111, 5, 110, 149, 198, 100, 67, 158, 44, 97, 38, 245, 206, 234, 174>>, Name |-> "gEfiPeiFirmwareVolumeInfoMeasurementExcludedPpiGuid"],
    [Guid |-> <<165, 188, 82, 49, 222, 234, 61, 67, 134, 46, 192, 28, 220, 41, 31, 68>>, Name |-> "gEfiRngProtocolGuid"],
    [Guid |-> <<246, 63, 88, 3, 54, 203, 64, 73, 148, 126, 185, 179, 159, 74, 250, 247>>, Name |-> "gEfiSmbiosProtocolGuid"],
    [Guid |-> <<6, 211, 201, 136, 0, 9, 181, 78, 130, 96, 62, 45, 190, 218, 31, 137>>, Name |-> "gPeiPostScriptTablePpiGuid"],
    [Guid |-> <<10, 22, 22, 238, 190, 232, 166, 71, 130, 10, 198, 144, 13, 176, 37, 10>>, Name |-> "gEfiPeiMpServicesPpiGuid"],
    [Guid |-> <<140, 69, 1, 231, 0, 73, 165, 76, 183, 114, 61, 55, 148, 159, 121, 39>>, Name |-> "gStatusCodeCallbackGuid"],
    [Guid |-> <<121, 93, 68, 189, 173, 183, 4, 79, 154, 216, 41, 189, 32, 64, 235, 60>>, Name |-> "gEfiLockBoxProtocolGuid"],
    [Guid |-> <<209, 109, 172, 19, 208, 115, 212, 17, 176, 107, 0, 170, 0, 189, 109, 231>>, Name |-> "gEfiEbcProtocolGuid"],
    [Guid |-> <<50, 118, 59, 20, 27, 184, 183, 76, 171, 211, 182, 37, 165, 185, 191, 254>>, Name |-> "gEfiExtScsiPassThruProtocolGuid"],
    [Guid |-> <<172, 192, 110, 120, 174, 101, 27, 77, 177, 55, 13, 17, 10, 72, 55, 151>>, Name |-> "gIScsiCHAPAuthInfoGuid"],
    [Guid |-> <<71, 39, 148, 155, 78, 21, 41, 77, 164, 54, 191, 113, 0, 200, 181, 59>>, Name |-> "gIp4Config2NvDataGuid"],
    [Guid |-> <<124, 61, 133, 21, 223, 61, 224, 67, 161, 203, 235, 248, 91, 143, 135, 44>>, Name |-> "gEfiDeferredImageLoadProtocolGuid"],
    [Guid |-> <<196, 88, 203, 121, 81, 172, 47, 68, 175, 215, 152, 228, 125, 46, 153, 8>>, Name |-> "gEfiBootScriptExecutorContextGuid"],
    [Guid |-> <<106, 64, 166, 49, 223, 107, 70, 78, 178, 162, 235, 170, 137, 196, 9, 32>>, Name |-> "gEfiHiiImageProtocolGuid"],
    [Guid |-> <<97, 223, 228, 139, 202, 147, 210, 17, 170, 13, 0, 224, 152, 3, 43, 140>>, Name |-> "gEfiGlobalVariableGuid"],
    [Guid |-> <<87, 15, 228, 91, 104, 250, 16, 70, 187, 191, 233, 197, 252, 218, 211, 101>>, Name |-> "gGetPcdInfoProtocolGuid"],
    [Guid |-> <<216, 57, 154, 157, 66, 189, 115, 74, 164, 213, 142, 233, 75, 225, 19, 128>>, Name |-> "gEfiDhcp4ServiceBindingProtocolGuid"],
    [Guid |-> <<66, 149, 109, 251, 45, 97, 69, 79, 135, 47, 92, 255, 82, 233, 61, 207>>, Name |-> "gEfiPeiRecoveryModulePpiGuid"],
    [Guid |-> <<152, 118, 250, 19, 49, 200, 199, 73, 135, 234, 143, 67, 252, 194, 81, 150>>, Name |-> "gEfiEventVirtualAddressChangeGuid"],
    [Guid |-> <<146, 109, 41, 234, 105, 11, 60, 66, 140, 40, 51, 180, 224, 169, 18, 104>>, Name |-> "gPcdDataBaseHobGuid"],
    [Guid |-> <<254, 171, 224, 185, 121, 89, 20, 73, 151, 127, 109, 238, 120, 194, 120, 166>>, Name |-> "gEfiPeiLoadFilePpiGuid"],
    [Guid |-> <<75, 55, 159, 158, 22, 143, 48, 66, 152, 36, 88, 70, 238, 118, 106, 151>>, Name |-> "gEfiSecPlatformInformation2PpiGuid"],
    [Guid |-> <<159, 4, 25, 76, 55, 65, 211, 77, 156, 16, 139, 151, 168, 63, 253, 250>>, Name |-> "gEfiMemoryTypeInformationGuid"],
    [Guid |-> <<100, 20, 240, 131, 189, 153, 229, 69, 179, 131, 175, 99, 5, 216, 233, 230>>, Name |-> "gEfiUdp4ServiceBindingProtocolGuid"],
    [Guid |-> <<100, 87, 179, 181, 12, 70, 6, 74, 153, 252, 119, 161, 124, 27, 92, 235>>, Name |-> "gEfiPciOverrideProtocolGuid"],
    [Guid |-> <<21, 209, 48, 160, 221, 84, 123, 68, 144, 100, 242, 6, 136, 61, 124, 204>>, Name |-> "gPeiTpmInitializationDonePpiGuid"],
    [Guid |-> <<100, 137, 255, 96, 6, 233, 208, 65, 175, 237, 242, 65, 233, 116, 224, 142>>, Name |-> "gEfiDxeSmmReadyToLockProtocolGuid"],
    [Guid |-> <<114, 112, 169, 29, 220, 189, 48, 75, 153, 241, 114, 160, 181, 111, 255, 42>>, Name |-> "gEfiMonotonicCounterArchProtocolGuid"],
    [Guid |-> <<176, 246, 157, 215, 68, 239, 189, 67, 151, 151, 67, 233, 59, 207, 95, 168>>, Name |-> "gVlanConfigFormSetGuid"],
    [Guid |-> <<183, 191, 204, 244, 224, 246, 253, 71, 157, 212, 16, 168, 241, 80, 193, 145>>, Name |-> "gEfiSmmBase2ProtocolGuid"],
    [Guid |-> <<53, 43, 140, 111, 244, 254, 141, 68, 130, 86, 225, 27, 25, 214, 16, 119>>, Name |-> "gEfiSecPlatformInformationPpiGuid"],
    [Guid |-> <<81, 242, 102, 158, 124, 114, 140, 65, 191, 214, 194, 180, 37, 40, 24, 234>>, Name |-> "gEfiHiiImageDecoderProtocolGuid"],
    [Guid |-> <<5, 166, 221, 63, 110, 167, 70, 79, 173, 41, 18, 244, 83, 27, 61, 8>>, Name |-> "gEfiMpServiceProtocolGuid"],
    [Guid |-> <<37, 77, 243, 1, 226, 77, 173, 35, 63, 243, 54, 53, 63, 243, 35, 241>>, Name |-> "gEfiPeiPcdPpiGuid"],
    [Guid |-> <<63, 112, 28, 113, 133, 194, 16, 75, 163, 176, 54, 236, 189, 60, 139, 226>>, Name |-> "gEfiCapsuleVendorGuid"],
    [Guid |-> <<136, 145, 30, 23, 211, 49, 245, 64, 177, 12, 83, 155, 45, 185, 64, 205>>, Name |-> "gEfiShellPkgTokenSpaceGuid"],
    [Guid |-> <<127, 205, 133, 29, 61, 244, 210, 17, 154, 12, 0, 144, 39, 63, 193, 77>>, Name |-> "gEfiUnicodeCollationProtocolGuid"],
    [Guid |-> <<41, 223, 217, 58, 1, 69, 141, 71, 177, 248, 127, 127, 231, 14, 80, 243>>, Name |-> "gEfiUdp4ProtocolGuid"],
    [Guid |-> <<154, 157, 247, 179, 108, 67, 17, 220, 176, 82, 205, 133, 223, 82, 76, 230>>, Name |-> "gEfiRegularExpressionProtocolGuid"],
    [Guid |-> <<187, 126, 112, 47, 26, 74, 212, 17, 154, 56, 0, 144, 39, 63, 193, 77>>, Name |-> "gEfiPciRootBridgeIoProtocolGuid"],
    [Guid |-> <<108, 118, 127, 96, 85, 116, 190, 66, 147, 11, 228, 215, 109, 178, 114, 15>>, Name |-> "gEfiTrEEProtocolGuid"],
    [Guid |-> <<187, 109, 238, 246, 127, 214, 160, 78, 139, 150, 106, 113, 177, 157, 132, 173>>, Name |-> "gEdkiiStatusCodeDataTypeVariableGuid"],
    [Guid |-> <<0, 0, 0, 0, 0, 0, 0, 0, 0, 0, 0, 0, 0, 0, 0, 0>>, Name |-> "gZeroGuid"],
    [Guid |-> <<169, 51, 143, 38, 205, 204, 190, 72, 136, 23, 134, 5, 58, 195, 46, 214>>, Name |-> "gPeiSmmAccessPpiGuid"],
    [Guid |-> <<254, 124, 17, 216, 166, 148, 212, 17, 154, 58, 0, 144, 39, 63, 193, 77>>, Name |-> "gEfiDecompressProtocolGuid"],
    [Guid |-> <<193, 119, 116, 56, 199, 105, 210, 17, 142, 57, 0, 160, 201, 105, 114, 59>>, Name |-> "gEfiSimpleTextInProtocolGuid"],
    [Guid |-> <<11, 199, 174, 123, 224, 87, 118, 76, 142, 135, 47, 158, 40, 8, 131, 67>>, Name |-> "gEfiVT100PlusGuid"],
    [Guid |-> <<117, 71, 202, 233, 87, 134, 252, 71, 151, 231, 126, 214, 90, 8, 67, 36>>, Name |-> "gEfiHiiFontProtocolGuid"],
    [Guid |-> <<24, 221, 95, 33, 80, 189, 235, 79, 137, 11, 88, 202, 11, 71, 57, 233>>, Name |-> "gEfiSioProtocolGuid"],
    [Guid |-> <<148, 211, 101, 0, 81, 153, 68, 65, 130, 163, 10, 252, 133, 121, 194, 81>>, Name |-> "gEfiPeiRscHandlerPpiGuid"],
    [Guid |-> <<35, 190, 208, 220, 134, 149, 244, 64, 182, 67, 6, 82, 44, 237, 78, 222>>, Name |-> "gEfiPeiSecurity2PpiGuid"],
    [Guid |-> <<145, 48, 236, 86, 76, 149, 210, 17, 142, 63, 0, 160, 201, 105, 114, 59>>, Name |-> "gEfiLoadFileProtocolGuid"],
    [Guid |-> <<190, 57, 9, 226, 212, 50, 190, 65, 161, 80, 137, 127, 133, 212, 152, 41>>, Name |-> "gEfiMemoryOverwriteControlDataGuid"],
    [Guid |-> <<194, 67, 70, 242, 34, 198, 78, 73, 138, 13, 70, 50, 87, 156, 45, 91>>, Name |-> "gEfiTrEEPhysicalPresenceGuid"],
    [Guid |-> <<227, 143, 148, 94, 211, 38, 181, 66, 175, 23, 97, 2, 135, 24, 141, 236>>, Name |-> "gEfiDiskInfoIdeInterfaceGuid"],
    [Guid |-> <<12, 194, 47, 242, 244, 140, 235, 69, 142, 6, 173, 78, 80, 185, 93, 211>>, Name |-> "gEfiHiiDriverHealthFormsetGuid"],
    [Guid |-> <<108, 118, 127, 96, 85, 116, 190, 66, 147, 11, 228, 215, 109, 178, 114, 15>>, Name |-> "gEfiTcg2ProtocolGuid"],
    [Guid |-> <<113, 232, 104, 136, 241, 228, 211, 17, 188, 34, 0, 128, 199, 60, 136, 129>>, Name |-> "gEfiAcpi20TableGuid"],
    [Guid |-> <<35, 231, 106, 50, 50, 174, 137, 69, 152, 184, 202, 194, 60, 220, 193, 177>>, Name |-> "gPcAtChipsetPkgTokenSpaceGuid"],
    [Guid |-> <<12, 176, 213, 111, 38, 212, 131, 66, 152, 135, 108, 245, 207, 28, 177, 254>>, Name |-> "gEfiUserManagerProtocolGuid"],
    [Guid |-> <<30, 209, 114, 42, 118, 115, 246, 64, 156, 104, 35, 250, 47, 227, 99, 241>>, Name |-> "gEfiEbcSimpleDebuggerProtocolGuid"],
    [Guid |-> <<252, 81, 199, 164, 174, 35, 62, 76, 146, 233, 73, 100, 207, 99, 243, 73>>, Name |-> "gEfiUnicodeCollation2ProtocolGuid"],
    [Guid |-> <<87, 124, 36, 120, 219, 99, 8, 71, 153, 194, 168, 180, 169, 166, 31, 107>>, Name |-> "gEfiMtftp4ProtocolGuid"],
    [Guid |-> <<49, 180, 236, 72, 114, 251, 192, 69, 169, 34, 244, 88, 254, 4, 11, 213>>, Name |-> "gEfiEdidOverrideProtocolGuid"],
    [Guid |-> <<153, 132, 89, 239, 94, 178, 58, 71, 191, 175, 231, 229, 125, 206, 130, 196>>, Name |-> "gTpmErrorHobGuid"],
    [Guid |-> <<248, 9, 136, 229, 193, 251, 226, 72, 136, 58, 163, 15, 220, 75, 68, 30>>, Name |-> "gEfiIfrFrontPageGuid"],
    [Guid |-> <<100, 158, 151, 163, 232, 172, 220, 77, 188, 7, 77, 102, 184, 253, 9, 119>>, Name |-> "gEfiIpSec2ProtocolGuid"],
    [Guid |-> <<178, 204, 186, 38, 66, 111, 212, 17, 188, 231, 0, 128, 199, 60, 136, 129>>, Name |-> "gEfiMetronomeArchProtocolGuid"],
    [Guid |-> <<238, 0, 76, 244, 44, 31, 0, 74, 170, 9, 28, 159, 62, 8, 0, 163>>, Name |-> "gEfiArpServiceBindingProtocolGuid"],
    [Guid |-> <<40, 115, 42, 193, 31, 248, 210, 17, 186, 75, 0, 160, 201, 62, 201, 59>>, Name |-> "gEfiPartTypeSystemPartGuid"],
    [Guid |-> <<211, 88, 65, 127, 77, 7, 109, 69, 140, 178, 1, 249, 200, 247, 157, 170>>, Name |-> "gEfiTpmDeviceSelectedGuid"],
    [Guid |-> <<33, 154, 201, 5, 15, 199, 210, 74, 138, 95, 53, 223, 51, 67, 245, 30>>, Name |-> "gEfiDevicePathFromTextProtocolGuid"],
    [Guid |-> <<214, 160, 21, 173, 236, 139, 207, 74, 160, 115, 208, 29, 231, 126, 45, 136>>, Name |-> "gEfiVTUTF8Guid"],
    [Guid |-> <<54, 41, 33, 134, 118, 14, 200, 65, 160, 58, 42, 242, 252, 28, 57, 226>>, Name |-> "gEfiRscHandlerProtocolGuid"],
    [Guid |-> <<177, 204, 186, 38, 66, 111, 212, 17, 188, 231, 0, 128, 199, 60, 136, 129>>, Name |-> "gEfiCpuArchProtocolGuid"],
    [Guid |-> <<20, 116, 113, 167, 22, 198, 119, 73, 148, 32, 132, 71, 18, 167, 53, 191>>, Name |-> "gEfiCertTypeRsa2048Sha256Guid"],
    [Guid |-> <<204, 41, 48, 75, 152, 107, 251, 71, 188, 150, 118, 220, 184, 4, 65, 240>>, Name |-> "gEfiDiskInfoUfsInterfaceGuid"],
    [Guid |-> <<215, 114, 126, 88, 80, 204, 121, 79, 130, 9, 202, 41, 31, 193, 161, 15>>, Name |-> "gEfiHiiConfigRoutingProtocolGuid"],
    [Guid |-> <<245, 63, 94, 102, 204, 70, 212, 17, 154, 56, 0, 144, 39, 63, 193, 77>>, Name |-> "gEfiWatchdogTimerArchProtocolGuid"],
    [Guid |-> <<135, 172, 207, 39, 204, 70, 212, 17, 154, 56, 0, 144, 39, 63, 193, 77>>, Name |-> "gEfiRealTimeClockArchProtocolGuid"],
    [Guid |-> <<88, 28, 232, 6, 215, 74, 188, 68, 131, 144, 241, 2, 101, 247, 36, 128>>, Name |-> "gPcdPpiGuid"],
    [Guid |-> <<90, 245, 35, 235, 99, 120, 194, 74, 141, 61, 149, 101, 53, 222, 3, 117>>, Name |-> "gEfiIncompatiblePciDeviceSupportProtocolGuid"],
    [Guid |-> <<52, 117, 158, 221, 98, 119, 152, 70, 140, 20, 245, 133, 23, 166, 37, 170>>, Name |-> "gEfiSimpleTextInputExProtocolGuid"],
    [Guid |-> <<44, 111, 179, 211, 81, 213, 212, 17, 154, 70, 0, 144, 39, 63, 193, 77>>, Name |-> "gEfiConsoleOutDeviceGuid"],
    [Guid |-> <<5, 10, 61, 205, 36, 158, 124, 67, 168, 145, 30, 224, 83, 219, 118, 56>>, Name |-> "gEdkiiVariableLockProtocolGuid"],
    [Guid |-> <<13, 246, 89, 18, 84, 183, 142, 70, 167, 137, 77, 184, 93, 85, 232, 126>>, Name |-> "gEfiSwapAddressRangeProtocolGuid"],
    [Guid |-> <<163, 172, 10, 136, 220, 74, 4, 74, 144, 121, 183, 71, 52, 8, 37, 229>>, Name |-> "gEfiPropertiesTableGuid"],
    [Guid |-> <<117, 25, 226, 248, 153, 8, 88, 79, 164, 190, 85, 37, 169, 198, 215, 122>>, Name |-> "gEfiHobMemoryAllocModuleGuid"],
    [Guid |-> <<97, 237, 86, 100, 121, 53, 201, 65, 138, 38, 10, 11, 214, 43, 120, 252>>, Name |-> "gIp4IScsiConfigGuid"],
    [Guid |-> <<146, 110, 87, 9, 63, 109, 210, 17, 142, 57, 0, 160, 201, 105, 114, 59>>, Name |-> "gEfiFileInfoGuid"],
    [Guid |-> <<91, 21, 139, 77, 89, 192, 143, 76, 137, 38, 6, 253, 67, 49, 219, 138>>, Name |-> "gGetPcdInfoPpiGuid"],
    [Guid |-> <<231, 14, 81, 252, 220, 255, 212, 17, 189, 65, 0, 128, 199, 60, 136, 129>>, Name |-> "gAprioriGuid"],
    [Guid |-> <<193, 192, 6, 64, 179, 252, 62, 64, 153, 109, 74, 108, 135, 36, 224, 109>>, Name |-> "gEfiLoadFile2ProtocolGuid"],
    [Guid |-> <<144, 1, 6, 175, 58, 94, 37, 64, 175, 189, 225, 249, 5, 191, 170, 76>>, Name |-> "gEfiHiiImageDecoderNamePngGuid"],
    [Guid |-> <<51, 191, 5, 172, 90, 153, 212, 78, 170, 184, 239, 122, 232, 15, 92, 176>>, Name |-> "gUefiCpuPkgTokenSpaceGuid"],
    [Guid |-> <<89, 146, 241, 77, 113, 220, 70, 77, 190, 241, 53, 123, 181, 120, 196, 24>>, Name |-> "gEfiPs2PolicyProtocolGuid"],
    [Guid |-> <<83, 71, 193, 224, 190, 249, 210, 17, 154, 12, 0, 144, 39, 63, 193, 77>>, Name |-> "gEfiPcAnsiGuid"],
    [Guid |-> <<250, 189, 182, 118, 205, 42, 98, 68, 158, 63, 203, 88, 201, 105, 217, 55>>, Name |-> "gPerformanceProtocolGuid"],
    [Guid |-> <<113, 81, 52, 206, 11, 186, 210, 17, 142, 79, 0, 160, 201, 105, 114, 59>>, Name |-> "gEfiDiskIoProtocolGuid"],
    [Guid |-> <<12, 89, 85, 39, 60, 111, 250, 66, 158, 164, 163, 186, 84, 60, 218, 37>>, Name |-> "gEfiDebugSupportProtocolGuid"],
    [Guid |-> <<54, 49, 47, 117, 22, 78, 220, 79, 162, 42, 229, 244, 104, 18, 244, 202>>, Name |-> "gEfiShellParametersProtocolGuid"],
    [Guid |-> <<40, 184, 178, 210, 38, 8, 167, 72, 179, 223, 152, 60, 0, 96, 36, 240>>, Name |-> "gEfiStatusCodeRuntimeProtocolGuid"],
    [Guid |-> <<28, 193, 110, 153, 151, 83, 115, 78, 181, 143, 130, 126, 82, 144, 109, 239>>, Name |-> "gEfiVectorHandoffTableGuid"],
    [Guid |-> <<179, 143, 232, 124, 215, 75, 121, 70, 135, 168, 168, 216, 222, 229, 13, 43>>, Name |-> "gEfiEventReadyToBootGuid"],
    [Guid |-> <<53, 23, 11, 15, 160, 135, 147, 65, 178, 102, 83, 140, 56, 175, 72, 206>>, Name |-> "gEfiIfrTianoGuid"],
    [Guid |-> <<223, 160, 56, 171, 115, 104, 169, 68, 135, 230, 212, 235, 86, 20, 132, 73>>, Name |-> "gEfiRamDiskProtocolGuid"],
    [Guid |-> <<128, 109, 145, 125, 177, 91, 140, 69, 164, 143, 226, 95, 221, 81, 239, 148>>, Name |-> "gEfiTtyTermGuid"],
    [Guid |-> <<222, 89, 170, 81, 242, 253, 163, 78, 188, 99, 135, 95, 183, 132, 46, 233>>, Name |-> "gEfiHashAlgorithmSha256Guid"],
    [Guid |-> <<114, 193, 159, 239, 178, 161, 147, 70, 179, 39, 109, 50, 252, 65, 96, 66>>, Name |-> "gEfiHiiDatabaseProtocolGuid"],
    [Guid |-> <<135, 140, 135, 49, 117, 11, 213, 17, 154, 79, 0, 144, 39, 63, 193, 77>>, Name |-> "gEfiSimplePointerProtocolGuid"],
    [Guid |-> <<171, 135, 203, 25, 185, 44, 101, 70, 131, 96, 221, 207, 96, 84, 247, 157>>, Name |-> "gEfiPciHotPlugRequestProtocolGuid"],
    [Guid |-> <<119, 46, 21, 73, 218, 26, 100, 71, 183, 162, 122, 254, 254, 217, 94, 139>>, Name |-> "gEfiDebugImageInfoTableGuid"],
    [Guid |-> <<72, 215, 8, 116, 140, 252, 230, 78, 146, 136, 196, 190, 192, 146, 164, 16>>, Name |-> "gEfiPeiMasterBootModePpiGuid"],
    [Guid |-> <<124, 122, 77, 58, 138, 1, 66, 75, 129, 179, 220, 16, 227, 181, 145, 189>>, Name |-> "gUsbKeyboardLayoutKeyGuid"],
    [Guid |-> <<101, 96, 166, 223, 25, 180, 211, 17, 154, 45, 0, 144, 39, 63, 193, 77>>, Name |-> "gEfiVT100Guid"],
    [Guid |-> <<82, 251, 159, 43, 19, 27, 111, 65, 168, 123, 188, 147, 13, 239, 146, 168>>, Name |-> "gTcgEventEntryHobGuid"],
    [Guid |-> <<231, 17, 23, 197, 191, 180, 74, 64, 191, 184, 10, 4, 142, 241, 255, 228>>, Name |-> "gEfiIp4ServiceBindingProtocolGuid"],
    [Guid |-> <<157, 154, 73, 55, 47, 84, 137, 76, 160, 38, 53, 218, 20, 32, 148, 228>>, Name |-> "gEfiUartDevicePathGuid"],
    [Guid |-> <<194, 119, 116, 56, 199, 105, 210, 17, 142, 57, 0, 160, 201, 105, 114, 59>>, Name |-> "gEfiSimpleTextOutProtocolGuid"],
    [Guid |-> <<136, 172, 207, 39, 204, 70, 212, 17, 154, 56, 0, 144, 39, 63, 193, 77>>, Name |-> "gEfiResetArchProtocolGuid"],
    [Guid |-> <<34, 91, 78, 150, 89, 100, 210, 17, 142, 57, 0, 160, 201, 105, 114, 59>>, Name |-> "gEfiSimpleFileSystemProtocolGuid"],
    [Guid |-> <<139, 41, 44, 152, 250, 244, 203, 65, 184, 56, 119, 170, 104, 143, 184, 57>>, Name |-> "gEfiUgaDrawProtocolGuid"],
    [Guid |-> <<211, 50, 152, 34, 48, 122, 54, 75, 184, 39, 244, 12, 183, 212, 84, 54>>, Name |-> "gEfiPeiStatusCodePpiGuid"],
    [Guid |-> <<18, 131, 199, 82, 220, 142, 51, 66, 152, 242, 26, 26, 165, 227, 136, 165>>, Name |-> "gEfiNvmExpressPassThruProtocolGuid"],
    [Guid |-> <<130, 158, 189, 62, 120, 44, 230, 77, 151, 134, 141, 75, 252, 183, 200, 129>>, Name |-> "gEfiFaultTolerantWriteProtocolGuid"],
    [Guid |-> <<9, 154, 28, 130, 26, 84, 246, 64, 159, 67, 10, 209, 147, 161, 44, 254>>, Name |-> "gEdkiiMemoryProfileGuid"],
    [Guid |-> <<246, 63, 94, 102, 204, 70, 212, 17, 154, 56, 0, 144, 39, 63, 193, 77>>, Name |-> "gEfiBdsArchProtocolGuid"],
    [Guid |-> <<169, 79, 100, 143, 80, 232, 177, 77, 156, 226, 11, 68, 105, 142, 141, 164>>, Name |-> "gEfiFirmwareVolumeBlockProtocolGuid"],
    [Guid |-> <<211, 43, 234, 205, 37, 252, 28, 76, 185, 124, 179, 17, 134, 6, 73, 144>>, Name |-> "gEfiBootLogoProtocolGuid"],
    [Guid |-> <<118, 177, 63, 13, 105, 149, 81, 77, 163, 239, 125, 97, 198, 79, 234, 186>>, Name |-> "gEfiSecurityPkgTokenSpaceGuid"],
    [Guid |-> <<82, 112, 227, 161, 217, 128, 101, 78, 163, 23, 62, 154, 85, 196, 62, 201>>, Name |-> "gEfiIdeControllerInitProtocolGuid"],
    [Guid |-> <<26, 93, 202, 49, 17, 213, 49, 73, 183, 130, 174, 107, 43, 23, 140, 215>>, Name |-> "gEfiIfrFrameworkGuid"],
    [Guid |-> <<95, 113, 70, 42, 129, 53, 85, 74, 142, 115, 43, 118, 154, 170, 48, 197>>, Name |-> "gRamDiskFormSetGuid"],
    [Guid |-> <<90, 83, 171, 119, 252, 69, 75, 98, 85, 96, 247, 178, 129, 209, 249, 110>>, Name |-> "gEfiVirtualDiskGuid"],
    [Guid |-> <<66, 11, 54, 178, 115, 113, 10, 66, 134, 150, 70, 202, 107, 171, 16, 96>>, Name |-> "gMeasuredFvHobGuid"],
    [Guid |-> <<255, 92, 122, 106, 217, 232, 112, 79, 186, 218, 117, 171, 48, 37, 206, 20>>, Name |-> "gEfiComponentName2ProtocolGuid"],
    [Guid |-> <<88, 13, 219, 233, 141, 212, 246, 71, 156, 110, 111, 64, 232, 108, 123, 65>>, Name |-> "gPeiTpmInitializedPpiGuid"],
    [Guid |-> <<147, 208, 239, 239, 155, 13, 235, 70, 168, 86, 72, 53, 7, 0, 201, 8>>, Name |-> "gEfiHiiImageDecoderNameJpegGuid"],
    [Guid |-> <<33, 202, 93, 36, 123, 251, 211, 17, 143, 1, 0, 160, 201, 105, 114, 59>>, Name |-> "gEfiPxeBaseCodeCallbackProtocolGuid"],
    [Guid |-> <<76, 41, 141, 60, 195, 95, 81, 68, 187, 49, 196, 192, 50, 41, 94, 108>>, Name |-> "gIdleLoopEventGuid"],
    [Guid |-> <<0, 0, 0, 0, 0, 0, 0, 0, 0, 0, 0, 0, 0, 0, 0, 0>>, Name |-> "gEfiTpmDeviceInstanceNoneGuid"],
    [Guid |-> <<182, 115, 14, 34, 219, 107, 19, 68, 132, 5, 185, 116, 177, 8, 97, 154>>, Name |-> "gEfiFirmwareVolume2ProtocolGuid"],
    [Guid |-> <<233, 138, 15, 72, 70, 12, 169, 74, 188, 137, 219, 159, 186, 97, 152, 6>>, Name |-> "gEfiDpcProtocolGuid"],
    [Guid |-> <<142, 8, 151, 235, 223, 207, 198, 73, 190, 75, 217, 6, 165, 178, 14, 134>>, Name |-> "gEfiAcpiSdtProtocolGuid"],
    [Guid |-> <<211, 215, 71, 219, 129, 254, 211, 17, 154, 53, 0, 144, 39, 63, 193, 77>>, Name |-> "gEfiFileSystemVolumeLabelInfoIdGuid"],
    [Guid |-> <<29, 145, 250, 220, 235, 38, 159, 70, 162, 32, 56, 183, 220, 70, 18, 32>>, Name |-> "gEfiMemoryAttributesTableGuid"],
    [Guid |-> <<79, 42, 152, 20, 237, 176, 184, 69, 168, 17, 90, 122, 155, 194, 50, 223>>, Name |-> "gEfiHiiKeyBoardLayoutGuid"],
    [Guid |-> <<145, 110, 87, 9, 63, 109, 210, 17, 142, 57, 0, 160, 201, 105, 114, 59>>, Name |-> "gEfiDevicePathProtocolGuid"],
    [Guid |-> <<133, 178, 193, 59, 21, 138, 130, 74, 170, 191, 77, 125, 19, 251, 50, 101>>, Name |-> "gEfiBusSpecificDriverOverrideProtocolGuid"],
    [Guid |-> <<38, 192, 12, 6, 13, 76, 218, 77, 143, 65, 89, 95, 239, 0, 165, 2>>, Name |-> "gMemoryStatusCodeRecordGuid"],
    [Guid |-> <<240, 231, 61, 29, 7, 8, 79, 66, 170, 105, 17, 165, 78, 25, 164, 111>>, Name |-> "gEfiAtaPassThruProtocolGuid"],
    [Guid |-> <<85, 240, 171, 39, 184, 177, 38, 76, 128, 72, 116, 143, 55, 186, 162, 223>>, Name |-> "gEfiEventExitBootServicesGuid"],
    [Guid |-> <<221, 107, 224, 255, 7, 97, 166, 70, 123, 178, 90, 156, 126, 197, 39, 92>>, Name |-> "gEfiAcpiTableProtocolGuid"],
    [Guid |-> <<210, 76, 217, 65, 182, 53, 90, 69, 130, 88, 212, 229, 19, 52, 170, 221>>, Name |-> "gEfiIp4ProtocolGuid"],
    [Guid |-> <<175, 150, 187, 147, 242, 185, 184, 78, 148, 98, 224, 186, 116, 86, 66, 54>>, Name |-> "gUefiOvmfPkgTokenSpaceGuid"],
    [Guid |-> <<210, 82, 194, 12, 6, 193, 97, 70, 181, 189, 49, 71, 164, 248, 31, 146>>, Name |-> "gEfiPrint2SProtocolGuid"],
    [Guid |-> <<245, 110, 184, 42, 181, 236, 52, 65, 181, 86, 56, 84, 202, 31, 225, 180>>, Name |-> "gEfiPeiReadOnlyVariable2PpiGuid"],
    [Guid |-> <<177, 153, 100, 15, 173, 233, 61, 73, 185, 194, 47, 144, 129, 92, 108, 188>>, Name |-> "gEfiPhysicalPresenceGuid"],
    [Guid |-> <<104, 215, 35, 158, 243, 210, 102, 67, 159, 195, 58, 122, 186, 134, 67, 116>>, Name |-> "gEfiVlanConfigProtocolGuid"],
    [Guid |-> <<186, 29, 50, 56, 224, 79, 23, 78, 138, 236, 65, 48, 85, 234, 237, 193>>, Name |-> "gEfiLegacy8259ProtocolGuid"],
    [Guid |-> <<227, 140, 85, 107, 229, 105, 103, 76, 166, 52, 247, 254, 114, 173, 190, 132>>, Name |-> "gBlockMmioProtocolGuid"],
    [Guid |-> <<188, 45, 88, 109, 133, 219, 20, 69, 143, 204, 90, 223, 98, 39, 177, 71>>, Name |-> "gEfiPeiS3Resume2PpiGuid"],
    [Guid |-> <<99, 231, 30, 106, 122, 212, 180, 67, 170, 190, 239, 29, 226, 171, 86, 252>>, Name |-> "gEfiHiiPackageListProtocolGuid"],
    [Guid |-> <<172, 68, 48, 46, 159, 135, 15, 73, 151, 96, 187, 223, 175, 105, 95, 80>>, Name |-> "gEfiLegacyBiosGuid"],
    [Guid |-> <<231, 227, 207, 48, 225, 61, 134, 69, 190, 32, 222, 171, 161, 179, 183, 147>>, Name |-> "gEfiPciEnumerationCompleteProtocolGuid"],
    [Guid |-> <<144, 162, 60, 61, 165, 185, 227, 17, 183, 93, 184, 172, 111, 125, 101, 230>>, Name |-> "gXenBusProtocolGuid"],
    [Guid |-> <<43, 211, 89, 141, 85, 198, 233, 74, 155, 21, 242, 89, 4, 153, 42, 67>>, Name |-> "gEfiAbsolutePointerProtocolGuid"],
    [Guid |-> <<231, 228, 54, 26, 182, 250, 106, 71, 142, 117, 105, 90, 5, 118, 253, 215>>, Name |-> "gEfiPeiDecompressPpiGuid"],
    [Guid |-> <<102, 146, 8, 245, 160, 26, 83, 73, 151, 216, 86, 47, 138, 115, 181, 25>>, Name |-> "gEfiUsbHcProtocolGuid"],
    [Guid |-> <<6, 64, 179, 17, 91, 216, 10, 77, 162, 144, 213, 165, 113, 49, 14, 247>>, Name |-> "gPcdProtocolGuid"],
    [Guid |-> <<102, 213, 206, 26, 237, 118, 24, 66, 188, 129, 118, 127, 31, 151, 122, 137>>, Name |-> "gEfiNetworkInterfaceIdentifierProtocolGuid_31"],
    [Guid |-> <<32, 62, 132, 139, 50, 129, 82, 72, 144, 204, 85, 26, 78, 74, 127, 28>>, Name |-> "gEfiDevicePathToTextProtocolGuid"],
    [Guid |-> <<7, 85, 108, 79, 47, 35, 135, 71, 185, 94, 114, 248, 98, 73, 12, 177>>, Name |-> "gEventExitBootServicesFailedGuid"],
    [Guid |-> <<86, 16, 140, 189, 54, 159, 236, 68, 146, 168, 166, 51, 127, 129, 121, 134>>, Name |-> "gEfiEdidActiveProtocolGuid"],
    [Guid |-> <<0, 0, 0, 0, 0, 0, 0, 0, 0, 0, 0, 0, 0, 0, 0, 0>>, Name |-> "gEfiPartTypeUnusedGuid"],
    [Guid |-> <<45, 111, 179, 211, 81, 213, 212, 17, 154, 70, 0, 144, 39, 63, 193, 77>>, Name |-> "gEfiStandardErrorDeviceGuid"],
    [Guid |-> <<50, 137, 73, 158, 188, 74, 175, 69, 163, 77, 2, 71, 120, 123, 231, 198>>, Name |-> "gEfiDiskInfoAhciInterfaceGuid"],
    [Guid |-> <<128, 16, 209, 146, 111, 73, 149, 77, 190, 126, 3, 116, 136, 56, 43, 10>>, Name |-> "gEfiStatusCodeDataTypeStringGuid"],
    [Guid |-> <<246, 52, 12, 28, 128, 211, 250, 65, 160, 73, 138, 208, 108, 26, 102, 170>>, Name |-> "gEfiEdidDiscoveredProtocolGuid"],
    [Guid |-> <<43, 41, 88, 158, 104, 124, 125, 73, 160, 206, 101, 0, 253, 159, 27, 149>>, Name |-> "gEdkiiWorkingBlockSignatureGuid"],
    [Guid |-> <<185, 50, 152, 161, 37, 172, 211, 17, 154, 45, 0, 144, 39, 63, 193, 77>>, Name |-> "gEfiSimpleNetworkProtocolGuid"],
    [Guid |-> <<159, 41, 205, 83, 193, 43, 192, 64, 140, 7, 35, 246, 79, 219, 48, 224>>, Name |-> "gEdkiiPlatformLogoProtocolGuid"],
    [Guid |-> <<103, 253, 159, 175, 16, 236, 138, 72, 157, 252, 108, 191, 94, 226, 44, 46>>, Name |-> "gEfiAcpiVariableGuid"],
    [Guid |-> <<143, 41, 67, 30, 120, 52, 167, 65, 181, 119, 134, 6, 70, 53, 199, 40>>, Name |-> "gOptionRomPkgTokenSpaceGuid"],
    [Guid |-> <<128, 82, 215, 7, 212, 39, 105, 77, 144, 208, 86, 67, 226, 56, 179, 65>>, Name |-> "gEfiPciPlatformProtocolGuid"],
    [Guid |-> <<81, 129, 78, 219, 237, 87, 237, 75, 136, 51, 103, 81, 181, 209, 168, 215>>, Name |-> "gConnectConInEventGuid"],
    [Guid |-> <<215, 118, 49, 228, 232, 182, 39, 72, 183, 132, 127, 253, 196, 182, 133, 97>>, Name |-> "gEfiRngAlgorithmRaw"],
    [Guid |-> <<62, 169, 169, 149, 110, 168, 38, 73, 170, 239, 153, 24, 231, 114, 217, 135>>, Name |-> "gEfiEraseBlockProtocolGuid"],
    [Guid |-> <<120, 229, 140, 140, 61, 138, 28, 79, 153, 53, 137, 97, 133, 195, 45, 211>>, Name |-> "gEfiFirmwareFileSystem2Guid"],
    [Guid |-> <<187, 39, 180, 244, 33, 186, 22, 79, 188, 78, 67, 228, 22, 171, 97, 156>>, Name |-> "gEfiArpProtocolGuid"],
    [Guid |-> <<0, 178, 245, 76, 184, 104, 165, 76, 158, 236, 178, 62, 63, 80, 2, 154>>, Name |-> "gEfiPciIoProtocolGuid"],
    [Guid |-> <<122, 192, 115, 84, 203, 61, 202, 77, 189, 111, 30, 150, 137, 231, 52, 154>>, Name |-> "gEfiFirmwareFileSystem3Guid"],
    [Guid |-> <<8, 208, 2, 99, 155, 127, 48, 79, 135, 172, 96, 201, 254, 245, 218, 78>>, Name |-> "gEfiShellProtocolGuid"],
    [Guid |-> <<180, 82, 214, 60, 51, 109, 206, 77, 137, 219, 131, 223, 151, 102, 252, 202>>, Name |-> "gEfiVectorHandoffInfoPpiGuid"],
    [Guid |-> <<76, 242, 57, 119, 215, 147, 212, 17, 154, 58, 0, 144, 39, 63, 193, 77>>, Name |-> "gEfiHobListGuid"],
    [Guid |-> <<230, 71, 47, 147, 98, 35, 2, 64, 128, 62, 60, 213, 75, 19, 143, 133>>, Name |-> "gEfiScsiIoProtocolGuid"],
    [Guid |-> <<170, 75, 247, 8, 54, 234, 217, 65, 149, 33, 33, 167, 15, 135, 128, 188>>, Name |-> "gEfiDiskInfoScsiInterfaceGuid"],
    [Guid |-> <<220, 146, 168, 100, 97, 85, 54, 69, 146, 199, 121, 155, 252, 24, 51, 85>>, Name |-> "gEfiIsaAcpiProtocolGuid"],
    [Guid |-> <<49, 45, 157, 235, 136, 45, 211, 17, 154, 22, 0, 144, 39, 63, 193, 77>>, Name |-> "gEfiSmbiosTableGuid"],
    [Guid |-> <<111, 207, 37, 187, 212, 241, 210, 17, 154, 12, 0, 144, 39, 63, 193, 253>>, Name |-> "gEfiSerialIoProtocolGuid"],
    [Guid |-> <<193, 139, 14, 170, 188, 218, 176, 70, 168, 68, 55, 184, 22, 155, 43, 234>>, Name |-> "gEfiPciHotPlugInitProtocolGuid"],
    [Guid |-> <<43, 111, 179, 211, 81, 213, 212, 17, 154, 70, 0, 144, 39, 63, 193, 77>>, Name |-> "gEfiConsoleInDeviceGuid"],
    [Guid |-> <<87, 195, 112, 167, 147, 182, 109, 78, 166, 207, 210, 28, 114, 142, 85, 11>>, Name |-> "gEdkiiFormBrowserEx2ProtocolGuid"],
    [Guid |-> <<140, 129, 121, 48, 212, 70, 115, 74, 174, 243, 227, 228, 108, 241, 238, 219>>, Name |-> "gEfiBootScriptExecutorVariableGuid"],
    [Guid |-> <<56, 199, 48, 107, 145, 163, 212, 17, 154, 59, 0, 144, 39, 63, 193, 77>>, Name |-> "gEfiPlatformDriverOverrideProtocolGuid"],
    [Guid |-> <<120, 68, 15, 253, 253, 14, 29, 70, 186, 45, 229, 140, 69, 253, 95, 94>>, Name |-> "gEfiGetPcdInfoProtocolGuid"],
    [Guid |-> <<61, 89, 206, 49, 138, 16, 93, 72, 173, 178, 120, 242, 31, 41, 102, 190>>, Name |-> "gEfiLegacyInterruptProtocolGuid"],
    [Guid |-> <<17, 64, 112, 235, 2, 20, 211, 17, 142, 119, 0, 160, 201, 105, 114, 59>>, Name |-> "gMtcVendorGuid"],
    [Guid |-> <<171, 49, 160, 24, 67, 180, 26, 77, 165, 192, 12, 9, 38, 30, 159, 113>>, Name |-> "gEfiDriverBindingProtocolGuid"],
    [Guid |-> <<73, 240, 175, 161, 235, 253, 42, 68, 179, 32, 19, 171, 76, 183, 43, 188>>, Name |-> "gEfiMdeModulePkgTokenSpaceGuid"],
    [Guid |-> <<246, 240, 163, 19, 74, 38, 240, 62, 242, 224, 222, 197, 18, 52, 47, 52>>, Name |-> "gEfiPcdProtocolGuid"],
    [Guid |-> <<239, 118, 89, 240, 241, 131, 61, 79, 134, 25, 247, 89, 93, 65, 229, 56>>, Name |-> "gEfiPrint2ProtocolGuid"],
    [Guid |-> <<88, 47, 171, 148, 56, 20, 241, 78, 145, 82, 24, 148, 26, 58, 14, 104>>, Name |-> "gEfiSecurity2ArchProtocolGuid"],
    [Guid |-> <<17, 80, 112, 211, 25, 188, 247, 74, 190, 22, 246, 128, 48, 55, 140, 21>>, Name |-> "gEfiIntelFrameworkModulePkgTokenSpaceGuid"],
    [Guid |-> <<246, 202, 87, 232, 70, 192, 220, 69, 190, 63, 238, 7, 101, 251, 168, 135>>, Name |-> "gEfiS3SaveStateProtocolGuid"],
    [Guid |-> <<175, 30, 16, 112, 133, 0, 12, 68, 179, 86, 142, 227, 111, 239, 36, 240>>, Name |-> "gEfiLegacyRegion2ProtocolGuid"],
    [Guid |-> <<47, 90, 115, 199, 245, 136, 130, 72, 174, 99, 250, 172, 140, 139, 134, 179>>, Name |-> "gEfiVgaMiniPortProtocolGuid"],
    [Guid |-> <<126, 105, 83, 80, 188, 44, 25, 72, 144, 217, 5, 128, 222, 238, 87, 84>>, Name |-> "gEfiCapsuleArchProtocolGuid"],
    [Guid |-> <<158, 18, 238, 177, 54, 218, 129, 65, 145, 248, 4, 164, 146, 55, 102, 167>>, Name |-> "gEfiDriverFamilyOverrideProtocolGuid"],
    [Guid |-> <<227, 35, 100, 164, 23, 70, 241, 73, 185, 255, 209, 191, 169, 17, 88, 57>>, Name |-> "gEfiSecurityArchProtocolGuid"],
    [Guid |-> <<6, 71, 13, 51, 160, 242, 79, 78, 163, 105, 182, 111, 168, 213, 67, 133>>, Name |-> "gEfiHiiConfigAccessProtocolGuid"],
    [Guid |-> <<176, 205, 27, 252, 49, 125, 170, 73, 147, 106, 164, 96, 13, 157, 208, 131>>, Name |-> "CRC32"],
    [Guid |-> <<173, 128, 18, 163, 30, 72, 182, 65, 149, 232, 18, 127, 76, 152, 71, 121>>, Name |-> "TIANO_COMPRESS"],
    [Guid |-> <<152, 88, 78, 238, 20, 57, 89, 66, 157, 110, 220, 123, 215, 148, 3, 207>>, Name |-> "LZMA_COMPRESS"]
    >>

\* a | b on bytes, by bits
RECURSIVE OrBits(_, _, _)
OrBits(a, b, n) ==
    IF n = 0 THEN 0
    ELSE (IF a % 2 = 1 \/ b % 2 = 1 THEN 1 ELSE 0)
         + 2 * OrBits(a \div 2, b \div 2, n - 1)

\* 32-bit words are four bytes, least significant first
Zero32 == <<0, 0, 0, 0>>
GuidWord(Guid, k) == SubSeq(Guid, 4 * k + 1, 4 * k + 4)
\* x - y modulo 2^32, computed on the two 16-bit halves with the borrow
Sub32(x, y) ==
    LET lo == (x[1] + 256 * x[2]) - (y[1] + 256 * y[2])
        hi == (x[3] + 256 * x[4]) - (y[3] + 256 * y[4])
                 - (IF lo < 0 THEN 1 ELSE 0)
    IN <<(lo % 65536) % 256, (lo % 65536) \div 256,
         (hi % 65536) % 256, (hi % 65536) \div 256>>
Or32(x, y) == [i \in 1..4 |-> OrBits(x[i], y[i], 8)]

\* CompareGuid that leaves the last word out
CompareGuid_ThreeWords(Guid1, Guid2) ==
    LET r0 == Sub32(GuidWord(Guid1, 0), GuidWord(Guid2, 0))
        r1 == Or32(r0, Sub32(GuidWord(Guid1, 1), GuidWord(Guid2, 1)))
    IN Or32(r1, Sub32(GuidWord(Guid1, 2), GuidWord(Guid2, 2)))

\* CompareGuid: the four word differences, or-ed together
CompareGuid(Guid1, Guid2) ==
    LET r0 == Sub32(GuidWord(Guid1, 0), GuidWord(Guid2, 0))
        r1 == Or32(r0, Sub32(GuidWord(Guid1, 1), GuidWord(Guid2, 1)))
        r2 == Or32(r1, Sub32(GuidWord(Guid1, 2), GuidWord(Guid2, 2)))
    IN Or32(r2, Sub32(GuidWord(Guid1, 3), GuidWord(Guid2, 3)))

\* A NULL pointer passed where a GUID is expected
NullGuid == <<>>

\* The loop returning at the last entry that compares equal
GuidScanIn_LastMatch(table, Protocol) ==
    LET hits == {i \in 0..(NUM_GUID_MAPPINGS - 1) :
                    CompareGuid(Protocol, table[i + 1].Guid) = Zero32}
        last_hit == CHOOSE i \in hits : \A j \in hits : i >= j
    IN IF hits = {} THEN [Name |-> "<Unknown>", examined |-> NUM_GUID_MAPPINGS]
       ELSE [Name |-> table[last_hit + 1].Name, examined |-> last_hit + 1]

\* GetGuidName's loop over table: the index i at which it returns is the
\* least one whose entry compares equal; examined counts the entries compared.
GuidScanIn(table, Protocol) ==
    LET hits == {i \in 0..(NUM_GUID_MAPPINGS - 1) :
                    CompareGuid(Protocol, table[i + 1].Guid) = Zero32}
        first == CHOOSE i \in hits : \A j \in hits : i <= j
    IN IF hits = {} THEN [Name |-> "<Unknown>", examined |-> NUM_GUID_MAPPINGS]
       ELSE [Name |-> table[first + 1].Name, examined |-> first + 1]

\* The loop over GuidMappings (the table is built once for the whole scan)
GuidScan(Protocol) ==
    CHOOSE r \in {GuidScanIn(table, Protocol) : table \in {GuidMappings}} : TRUE

gEfiLoadedImageProtocolGuid ==
    <<161, 49, 27, 91, 98, 149, 210, 17, 142, 63, 0, 160, 201, 105, 114, 59>>
gEfiDevicePathProtocolGuid ==
    <<145, 110, 87, 9, 63, 109, 210, 17, 142, 57, 0, 160, 201, 105, 114, 59>>
ResetVector ==
    <<46, 6, 160, 27, 121, 199, 130, 69, 133, 102, 51, 106, 232, 247, 143, 9>>
AllOnesGuid ==
    <<255, 255, 255, 255, 255, 255, 255, 255, 255, 255, 255, 255, 255, 255,
      255, 255>>

HandleGuids ==
    {gEfiLoadedImageProtocolGuid, gEfiDevicePathProtocolGuid, ResetVector,
     AllOnesGuid, NullGuid}

\* The scans for those GUIDs, done once
HandleGuidScans ==
    [g \in {gEfiLoadedImageProtocolGuid, gEfiDevicePathProtocolGuid,
            ResetVector, AllOnesGuid} |-> GuidScan(g)]

\* GetGuidName, with the number of entries it compared
GuidLookup(Protocol) ==
    IF Protocol = NullGuid
    THEN [Name |-> "<NULL protocol pointer>", examined |-> 0]
    ELSE IF Protocol \in DOMAIN HandleGuidScans THEN HandleGuidScans[Protocol]
    ELSE GuidScan(Protocol)

GetGuidName(Protocol) == GuidLookup(Protocol).Name


\* ------------------------------------------------------ protocol dispatch
\* What a handler leaves in the caller's *interface
NoInterface == [written |-> FALSE, v |-> "unwritten"]
Interface(v) == [written |-> TRUE, v |-> v]

\* efi_handle_protocol_LoadedImage: device is what vmalloc returned in
\* creat_windows_loader_device, which stores through it unchecked.
efi_handle_protocol_LoadedImage(wli, handle, device) ==
    IF device = NULL64
    THEN [status |-> NoReturn, interface |-> NoInterface,
          windows_loaded_image |-> wli, host |-> "OOPS"]
    ELSE [status |-> EFI_SUCCESS,
          interface |-> Interface("&windows_loaded_image"),
          windows_loaded_image |->
              [wli EXCEPT !.FilePath = device,
                          !.LoadOptions = "&windows_load_options"],
          host |-> "OK"]

efi_handle_protocol_DevicePath(wli, handle) ==
    IF handle # BOOT_DEVICE_HANDLE
    THEN [status |-> EFI_UNSUPPORTED, interface |-> NoInterface,
          windows_loaded_image |-> wli, host |-> "OK"]
    ELSE [status |-> EFI_SUCCESS,
          interface |-> Interface("windows_boot_device_path"),
          windows_loaded_image |-> wli, host |-> "OK"]

\* efi_hook_HandleProtocol; get_GUID_str reads the GUID for the log line
efi_hook_HandleProtocol(wli, handle, guid, device) ==
    LET protocolName == GetGuidName(guid)
    IN IF guid = NullGuid
       THEN [status |-> NoReturn, interface |-> NoInterface,
             windows_loaded_image |-> wli, host |-> "OOPS"]
       ELSE IF protocolName = "gEfiLoadedImageProtocolGuid"
       THEN efi_handle_protocol_LoadedImage(wli, handle, device)
       ELSE IF protocolName = "gEfiDevicePathProtocolGuid"
       THEN efi_handle_protocol_DevicePath(wli, handle)
       ELSE [status |-> EFI_UNSUPPORTED, interface |-> NoInterface,
             windows_loaded_image |-> wli, host |-> "OK"]

\* ---------------------------------------------------------------- actions
M == [mappings |-> efi_memory_mappings, vmas |-> vmas, kheap |-> kheap,
      host |-> host, phys_of_null |-> phys_of_null]

\* The state after a call: the machine m2 and the call's record, marked
\* "again" when it repeats the previous call with the same outcome and changes
\* nothing; pre_key is the MapKey the guest got from the call just before, when
\* that was a successful GetMemoryMap and this call changed the ledger.
Machine(rec0, m2, pc2, env) ==
    LET rec == [rec0 EXCEPT !.pre_key =
                   IF /\ m2.mappings # efi_memory_mappings
                      /\ last.op = "GetMemoryMap"
                      /\ last.out.MapKey.written
                   THEN last.out.MapKey.v ELSE -1]
        same == m2 = M /\ pc2 = pc /\ Failures(env) = 0
                 /\ [last EXCEPT !.again = FALSE] = rec
    IN /\ Len(m2.mappings) <= MaxLedger
       /\ efi_memory_mappings' = m2.mappings
       /\ vmas' = m2.vmas
       /\ kheap' = m2.kheap
       /\ host' = m2.host
       /\ phys_of_null' = m2.phys_of_null
       /\ pc' = pc2
       /\ faults' = faults + Failures(env)
       /\ last' = [rec EXCEPT !.again = same]
       /\ UNCHANGED efi_mem_map_epoch

\* A service call of the guest leaves the loader's state alone.
Call(rec0, m2, pc2, env) ==
    Machine(rec0, m2, pc2, env) /\ UNCHANGED <<loadvars, purevars>>

\* The environments a call can meet: the build's virt_to_phys once it is
\* known, and no more failures than the host has left.
Envs == {env \in Env : /\ faults + Failures(env) <= MaxFaults
                       /\ phys_of_null \in {-1, env.null_phys}}
Quiet == CHOOSE env \in Env : Failures(env) = 0

Rec(op, by, status, a, out) ==
    [op |-> op, by |-> by, status |-> status, a |-> a, out |-> out,
     again |-> FALSE, pre_key |-> -1]

\* A failure that changes nothing of the call's outcome is left out.
CanFail(env, r, r0) == Failures(env) = 0 \/ r # r0

AllocatePagesMachine(by, pc2, Type, MemoryType, NumberOfPages, Memory, env) ==
    LET r == efi_hook_AllocatePages(M, Type, MemoryType, NumberOfPages,
                                    Memory, env)
        r0 == efi_hook_AllocatePages(M, Type, MemoryType, NumberOfPages,
                                     Memory, NoFailure(env))
    IN CanFail(env, r, r0) /\ Machine(Rec("AllocatePages", by, r.status,
                [Type |-> Type, MemoryType |-> MemoryType,
                 NumberOfPages |-> NumberOfPages, Memory |-> Memory],
                [Memory |-> IF r.Memory.written THEN r.Memory.v ELSE Memory,
                 wrote |-> r.Memory.written]),
            r.m, IF r.m.host = "OK" THEN pc2 ELSE pc, env)

AllocatePagesCall(by, pc2, Type, MemoryType, NumberOfPages, Memory, env) ==
    /\ AllocatePagesMachine(by, pc2, Type, MemoryType, NumberOfPages, Memory, env)
    /\ UNCHANGED <<loadvars, purevars>>

\* launch_efi_app: the pool of conventional memory, then the jump to efiApp
launch_efi_app ==
    /\ pc = "idle" /\ host = "OK"
    /\ \E env \in Envs :
          AllocatePagesCall("launch", "guest", AllocateAnyPages,
                            EfiConventionalMemory, pool_pages, 1048576, env)

\* efiApp returns to launch_efi_app
efiApp_return ==
    /\ pc = "guest" /\ host = "OK"
    /\ Call(Rec("efiApp_return", "guest", EFI_SUCCESS, <<>>, <<>>), M, "idle",
            Quiet)

AllocatePages ==
    /\ pc = "guest" /\ host = "OK"
    /\ \E in \in AllocatePagesInputs :
         \E env \in Envs :
            AllocatePagesCall("guest", "guest", in[1], in[2], in[3], in[4], env)

AllocatePool ==
    /\ pc = "guest" /\ host = "OK"
    /\ \E in \in AllocatePoolInputs :
         \E env \in Envs :
            LET r == efi_hook_AllocatePool(M, in[1], in[2], env)
                r0 == efi_hook_AllocatePool(M, in[1], in[2], NoFailure(env))
            IN CanFail(env, r, r0) /\ Call(Rec("AllocatePool", "guest", r.status,
                        [pool_type |-> in[1], size |-> in[2],
                         kmalloc_null |->
                            kmalloc(kheap, in[2], env.kmalloc_ok) = NULL],
                        [buffer |-> r.buffer]),
                    r.m, "guest", env)

FreePages ==
    /\ pc = "guest" /\ host = "OK"
    /\ \E in \in FreePagesInputs :
          LET PhysicalAddress == in[1]
              NumberOfPages == in[2]
              r == efi_hook_FreePages(M, PhysicalAddress, NumberOfPages)
          IN Call(Rec("FreePages", "guest", r.status,
                      [PhysicalAddress |-> PhysicalAddress,
                       NumberOfPages |-> NumberOfPages],
                      [after_alloc |->
                          /\ last.op = "AllocatePages"
                          /\ last.status = EFI_SUCCESS
                          /\ last.out.Memory = PhysicalAddress
                          /\ last.a.NumberOfPages = NumberOfPages,
                       changed |-> r.m.mappings # efi_memory_mappings]),
                  r.m, "guest", Quiet)

FreePool ==
    /\ pc = "guest" /\ host = "OK"
    /\ \E buff \in PoolPtrs :
          LET r == efi_hook_FreePool(M, buff)
          IN Call(Rec("FreePool", "guest", r.status, [buff |-> buff], <<>>),
                  r.m, "guest", Quiet)

GetMemoryMap ==
    /\ pc = "guest" /\ host = "OK"
    /\ \E MemoryMapSize \in MapSizes :
          LET r == efi_hook_GetMemoryMap(efi_memory_mappings,
                                         efi_mem_map_epoch, MemoryMapSize)
          IN Call(Rec("GetMemoryMap", "guest", r.status,
                      [MemoryMapSize |-> MemoryMapSize],
                      [MemoryMapSize |-> r.MemoryMapSize,
                       MemoryMap |-> r.MemoryMap, MapKey |-> r.MapKey,
                       DescriptorSize |-> r.DescriptorSize,
                       DescriptorVersion |-> r.DescriptorVersion]),
                  M, "guest", Quiet)

\* The process that calls kexec_load has its stack vma at the top of its
\* address space and nothing mapped where the guest's "physical" addresses lie.
StackVma == [vm_start |-> 15728640, vm_end |-> 15794176, pfnmap |-> FALSE]

\* No kexec_load call has been made: the mutex is free and the globals hold
\* their initialisers.
Tasks == {1, 2}
LoaderInit ==
    /\ kexec_mutex = 0
    /\ task = [t \in Tasks |-> [at |-> "user"]]
    /\ image = NoImage
    /\ windows_loaded_image = windows_loaded_image_0
    /\ fake_systab = fake_systab_0

\* arg and retval while no function is examined on its own
Nothing == [f |-> "none"]

LedgerInit ==
    /\ pc = "idle"
    /\ host = "OK"
    /\ efi_memory_mappings = <<>>
    /\ efi_mem_map_epoch = 0
    /\ vmas = {StackVma}
    /\ kheap = {}
    /\ phys_of_null = -1
    /\ faults = 0
    /\ last = Rec("boot", "boot", EFI_SUCCESS, <<>>, <<>>)

Init ==
    /\ LedgerInit
    /\ LoaderInit
    /\ arg = Nothing /\ retval = Nothing

Next ==
    \/ launch_efi_app
    \/ efiApp_return
    \/ AllocatePages
    \/ AllocatePool
    \/ FreePages
    \/ FreePool
    \/ GetMemoryMap

Spec == Init /\ [][Next]_vars

\* ------------------------------------------------ GetGuidName on its own
\* GUIDs that are in no entry of the table: the first entry's with its last
\* byte changed, the last entry's with the top bit of its first word
\* flipped, all ones, and two that differ from gZeroGuid in one bit.
AbsentGuids ==
    {[GuidMappings[1].Guid EXCEPT ![16] = 10],
     [GuidMappings[NUM_GUID_MAPPINGS].Guid EXCEPT ![4] = 110],
     AllOnesGuid,
     [i \in 1..16 |-> IF i = 4 THEN 128 ELSE 0],
     [i \in 1..16 |-> IF i = 16 THEN 1 ELSE 0]}

GuidProbes ==
    {GuidMappings[i].Guid : i \in 1..NUM_GUID_MAPPINGS}
        \cup AbsentGuids \cup {NullGuid}

InitGuid ==
    /\ LedgerInit
    /\ LoaderInit
    /\ arg \in {[f |-> "GetGuidName", Protocol |-> g] : g \in GuidProbes}
    /\ retval = Nothing

GetGuidName_call ==
    /\ arg.f = "GetGuidName" /\ retval = Nothing
    /\ LET r == GuidLookup(arg.Protocol)
       IN retval' = [f |-> "GetGuidName", Name |-> r.Name,
                  examined |-> r.examined]
    /\ UNCHANGED <<ledgervars, loadvars, arg>>

SpecGuid == InitGuid /\ [][GetGuidName_call]_vars

\* ---------------------------------------------------- CompareGuid on its own
\* GUIDs whose first word is 0, 0x7FFFFFFF, 0x80000000 and 0xFFFFFFFF with
\* the other words 0; two that differ from the first of these in the last
\* word only, by its lowest and by its highest bit; all ones; and the two
\* protocol GUIDs, which differ in their first two words
CmpGuids ==
    {[i \in 1..16 |-> 0],
     [i \in 1..16 |-> IF i \in 1..3 THEN 255 ELSE IF i = 4 THEN 127 ELSE 0],
     [i \in 1..16 |-> IF i = 4 THEN 128 ELSE 0],
     [i \in 1..16 |-> IF i \in 1..4 THEN 255 ELSE 0],
     [i \in 1..16 |-> IF i = 13 THEN 1 ELSE 0],
     [i \in 1..16 |-> IF i = 16 THEN 128 ELSE 0],
     AllOnesGuid, gEfiLoadedImageProtocolGuid, gEfiDevicePathProtocolGuid}

InitCmp ==
    /\ LedgerInit
    /\ LoaderInit
    /\ arg \in {[f |-> "CompareGuid", Guid1 |-> g1, Guid2 |-> g2] :
                   g1 \in CmpGuids, g2 \in CmpGuids}
    /\ retval = Nothing

CompareGuid_call ==
    /\ arg.f = "CompareGuid" /\ retval = Nothing
    /\ retval' = [f |-> "CompareGuid", r |-> CompareGuid(arg.Guid1, arg.Guid2)]
    /\ UNCHANGED <<ledgervars, loadvars, arg>>

SpecCmp == InitCmp /\ [][CompareGuid_call]_vars

\* ------------------------------------------------- the kexec_load system call
\* The user memory of two small PE images.  Each has a segment of two 8-byte
\* fields followed by the .reloc segment, which is the last one.
Field1 == N64(IMAGE_BASE + 4660)           \* 0x10000000 + 0x1234
Field2 == N64(IMAGE_BASE - 1)

\* One chunk: page RVA va, total_size 12, a type-10 entry for offset off and
\* a type-0 entry that pads the chunk
RelocChunk(va, off) ==
    LeBytes(va, 4) \o LeBytes(12, 4)
       \o LeBytes(IMAGE_REL_BASED_DIR64 * 4096 + off, 2) \o LeBytes(0, 2)

\* first segment at 0x1000000
SegmentsAligned ==
    <<Segment(Field1 \o Field2, 16, 16777216, 16),
      Segment(RelocChunk(0, 0), 12, 16777232, 12)>>

\* first segment at 0x1000FF8: its second field lies in the next page
SegmentsUnaligned ==
    <<Segment(Field1 \o Field2, 16, 16781304, 16),
      Segment(RelocChunk(0, 4088), 12, 16781320, 12)>>

PE == [legal |-> TRUE, RUN_PE |-> TRUE]

\* entry, nr_segments, segments, flags, and whether the caller has
\* CAP_SYS_BOOT
KexecLoad(entry, nr_segments, segments, flags, capable) ==
    [entry |-> entry, nr_segments |-> nr_segments, segments |-> segments,
     flags |-> flags, capable |-> capable]

KexecLoadInputs ==
    {KexecLoad(16777224, 2, SegmentsAligned, PE, TRUE),
     KexecLoad(16781312, 2, SegmentsUnaligned, PE, TRUE),
     KexecLoad(0, 0, <<>>, PE, TRUE),
     KexecLoad(16777224, 2, SegmentsAligned,
               [legal |-> TRUE, RUN_PE |-> FALSE], TRUE),
     KexecLoad(16777224, 2, SegmentsAligned,
               [legal |-> FALSE, RUN_PE |-> TRUE], TRUE),
     KexecLoad(16777224, 2, SegmentsAligned, PE, FALSE)}

\* A page fault in the first chunk, in the second chunk of the first
\* segment, and in the last segment
Faults == {NoFault, [seg |-> 1, chunk |-> 1, done |-> 0],
           [seg |-> 1, chunk |-> 2, done |-> 4],
           [seg |-> 2, chunk |-> 1, done |-> 0]}

\* PE sessions the model follows: a session appends the pool's descriptor,
\* so the length of the ledger counts them.
MaxSessions == 1

LoadEnvs ==
    {LoadEnv(-ENOMEM, TRUE, NULL64, NoFault),
     LoadEnv(0, FALSE, NULL64, NoFault)}
      \cup {LoadEnv(0, TRUE, addr, f) :
               addr \in {<<0, 0, 0, 32, 0, 0, 0, 0>>,
                         <<0, 0, 0, 8, 128, 255, 255, 255>>},
               f \in Faults}

\* A task outside kexec_load
Outside == [at |-> "user"]

\* kexec_load returns result to task t
Returns(t, result, in, results) ==
    /\ task' = [task EXCEPT ![t] = Outside]
    /\ last' = [op |-> "kexec_load", by |-> t, status |-> result,
                a |-> [nr_segments |-> in.nr_segments, flags |-> in.flags,
                       capable |-> in.capable],
                out |-> [results |-> results], again |-> FALSE,
                pre_key |-> -1]

\* kexec_load entering do_kexec_load without mutex_trylock's test
sys_kexec_load_NoTrylock(t) ==
    /\ host = "OK" /\ task[t].at = "user"
    /\ \E in \in KexecLoadInputs :
          LET result == IF ~in.capable THEN -EPERM
                        ELSE IF ~in.flags.legal THEN -EINVAL
                        ELSE 0
          IN IF result # 0
             THEN /\ Returns(t, result, in, <<>>)
                  /\ UNCHANGED kexec_mutex
             ELSE /\ kexec_mutex' = t
                  /\ task' = [task EXCEPT ![t] =
                                 [at |-> "do_kexec_load", in |-> in]]
                  /\ UNCHANGED last
    /\ UNCHANGED <<pc, host, efi_memory_mappings, efi_mem_map_epoch, vmas,
                   kheap, phys_of_null, faults, image, windows_loaded_image,
                   fake_systab, purevars>>

\* The part of kexec_load before do_kexec_load: the checks and mutex_trylock
sys_kexec_load(t) ==
    /\ host = "OK" /\ task[t].at = "user"
    /\ \E in \in KexecLoadInputs :
          LET result == IF ~in.capable THEN -EPERM
                        ELSE IF ~in.flags.legal THEN -EINVAL
                        ELSE IF kexec_mutex # 0 THEN -EBUSY
                        ELSE 0
          IN IF result # 0
             THEN /\ Returns(t, result, in, <<>>)
                  /\ UNCHANGED kexec_mutex
             ELSE /\ kexec_mutex' = t
                  /\ task' = [task EXCEPT ![t] =
                                 [at |-> "do_kexec_load", in |-> in]]
                  /\ UNCHANGED last
    /\ UNCHANGED <<pc, host, efi_memory_mappings, efi_mem_map_epoch, vmas,
                   kheap, phys_of_null, faults, image, windows_loaded_image,
                   fake_systab, purevars>>

\* Mutant: the return to the caller without mutex_unlock.
Unlock_KeepsLock(t, result, results) ==
    /\ UNCHANGED kexec_mutex
    /\ Returns(t, result, task[t].in, results)
    /\ UNCHANGED <<pc, host, efi_memory_mappings, efi_mem_map_epoch, vmas,
                   kheap, phys_of_null, faults, windows_loaded_image,
                   fake_systab, purevars>>

\* do_kexec_load returned: mutex_unlock and the return to the caller; the
\* ledger and the loader's objects are as they were
Unlock(t, result, results) ==
    /\ kexec_mutex' = 0
    /\ Returns(t, result, task[t].in, results)
    /\ UNCHANGED <<pc, host, efi_memory_mappings, efi_mem_map_epoch, vmas,
                   kheap, phys_of_null, faults, windows_loaded_image,
                   fake_systab, purevars>>

\* launch_efi_app's fake handle, 0xDEADBEEF
ImageHandle == <<239, 190, 173, 222, 0, 0, 0, 0>>

\* do_kexec_load up to its return or, for a PE image, up to the call of the
\* entry point in launch_efi_app
do_kexec_load(t) ==
    /\ host = "OK" /\ task[t].at = "do_kexec_load"
    /\ LET in == task[t].in
       IN \/ /\ in.nr_segments = 0
             /\ Unlock(t, 0, <<>>)
             /\ UNCHANGED image
          \/ /\ in.nr_segments # 0
             /\ \E lenv \in LoadEnvs :
                  LET a == kimage_alloc_init(in.entry, in.nr_segments,
                                            in.segments, lenv)
                      l == kimage_load_pe(a.image, in.nr_segments,
                                          windows_loaded_image, lenv)
                  IN IF a.ret # 0
                     THEN Unlock(t, a.ret, <<>>) /\ UNCHANGED image
                     ELSE IF ~in.flags.RUN_PE
                     THEN \* the ordinary load, which is not this program's
                          /\ \E ret \in {0, -ENOMEM} : Unlock(t, ret, <<>>)
                          /\ UNCHANGED image
                     ELSE /\ Len(efi_memory_mappings) < MaxSessions
                          /\ image' = l.image
                          /\ windows_loaded_image' = l.windows_loaded_image
                          /\ fake_systab' = hook_boot_services(fake_systab)
                          /\ task' = [task EXCEPT ![t] =
                                 [at |-> "efiApp", in |-> in,
                                  results |-> l.results,
                                  imageHandle |-> ImageHandle,
                                  systemTable |-> "&fake_systab"]]
                          /\ AllocatePagesMachine("launch", "guest",
                                 AllocateAnyPages, EfiConventionalMemory,
                                 pool_pages, 1048576, Quiet)
                          /\ UNCHANGED <<kexec_mutex, purevars>>

\* the image handle (which is also the boot device handle) and another one
Handles == {BOOT_DEVICE_HANDLE, N64(4325376)}

\* What vmalloc returns when it succeeds: an address that is not in use
FreshVmalloc ==
    CHOOSE v \in VmallocAddrs :
        v \notin {image.raw_image, windows_loaded_image.FilePath}

\* What the caller's variable holds when it passes its address as interface:
\* NULL, or the result of an earlier call
CallerInterfaces == {"NULL", "&windows_loaded_image"}

\* The caller's variable after the call
CallerInterface(rec) ==
    IF rec.out.interface.written THEN rec.out.interface.v ELSE rec.a.interface

\* vmalloc in creat_windows_loader_device, reached for the loaded-image
\* protocol only: NULL or a fresh address
VmallocResults == {NULL64, FreshVmalloc}

HandleProtocol ==
    /\ pc = "guest" /\ host = "OK"
    /\ \E handle \in Handles, guid \in HandleGuids,
          device \in VmallocResults, interface \in CallerInterfaces :
          LET r == efi_hook_HandleProtocol(windows_loaded_image, handle, guid,
                                           device)
          IN /\ guid # gEfiLoadedImageProtocolGuid => device = FreshVmalloc
             /\ windows_loaded_image' = r.windows_loaded_image
             /\ Machine(Rec("HandleProtocol", "guest", r.status,
                            [handle |-> handle, guid |-> guid,
                             interface |-> interface],
                            [interface |-> r.interface]),
                        [M EXCEPT !.host = r.host], "guest", Quiet)
             /\ UNCHANGED <<kexec_mutex, task, image, fake_systab, purevars>>

efiApp_returns_KeepsLock(t) ==
    /\ pc = "guest" /\ host = "OK" /\ task[t].at = "efiApp"
    /\ Returns(t, 0, task[t].in, task[t].results)
    /\ image' = NoImage
    /\ pc' = "idle"
    /\ UNCHANGED <<host, efi_memory_mappings, efi_mem_map_epoch, vmas, kheap,
                   phys_of_null, faults, windows_loaded_image, fake_systab,
                   kexec_mutex, purevars>>

\* efiApp returns: launch_efi_app and kimage_run_pe return, do_kexec_load
\* frees the kimage and returns ret, which kimage_alloc_init left 0
efiApp_returns(t) ==
    /\ pc = "guest" /\ host = "OK" /\ task[t].at = "efiApp"
    /\ kexec_mutex' = 0
    /\ Returns(t, 0, task[t].in, task[t].results)
    /\ image' = NoImage
    /\ pc' = "idle"
    /\ UNCHANGED <<host, efi_memory_mappings, efi_mem_map_epoch, vmas, kheap,
                   phys_of_null, faults, windows_loaded_image, fake_systab,
                   purevars>>

NextLoad ==
    \/ \E t \in Tasks : sys_kexec_load(t)
    \/ \E t \in Tasks : do_kexec_load(t)
    \/ HandleProtocol
    \/ \E t \in Tasks : efiApp_returns(t)

SpecLoad == Init /\ [][NextLoad]_vars

\* ------------------------------------------ the services without a model
EFI_NOT_FOUND == "EFI_NOT_FOUND"

\* con_out's function pointers in the order of its initialiser
con_out ==
    <<"efi_conout_hook_Reset", "efi_conout_hook_OutputString",
      "efi_conout_hook_TestString", "efi_conout_hook_QueryMode",
      "efi_conout_hook_SetMode", "efi_conout_hook_SetAttribute",
      "efi_conout_hook_ClearScreen", "efi_conout_hook_SetCursorPosition",
      "efi_conout_hook_EnableCursor">>

\* runtime_services' function pointers in the order of its initialiser
runtime_services ==
    <<"efi_runtime_get_time", "efi_runtime_set_time",
      "efi_runtime_get_wakeup_time", "efi_runtime_set_wakeup_time",
      "efi_runtime_set_virtual_address_map", "efi_runtime_convert_pointer",
      "efi_runtime_get_variable", "efi_runtime_get_next_variable",
      "efi_runtime_set_variable", "efi_runtime_get_next_high_mono_count",
      "efi_runtime_reset_system", "efi_runtime_update_capsule",
      "efi_runtime_query_capsule_caps", "efi_runtime_query_variable_info">>

\* The hooks of the memory ledger and of protocol dispatch, which have
\* actions of their own
LedgerAndDispatch ==
    {"efi_hook_AllocatePages", "efi_hook_FreePages", "efi_hook_GetMemoryMap",
     "efi_hook_AllocatePool", "efi_hook_FreePool", "efi_hook_HandleProtocol",
     "efi_hook_OpenProtocol"}

\* Every other function the guest can reach through the system table
StubSlots ==
    ({efi_boot_service_hooks[i] : i \in DOMAIN efi_boot_service_hooks}
        \ LedgerAndDispatch)
    \cup {con_out[i] : i \in DOMAIN con_out}
    \cup {runtime_services[i] : i \in DOMAIN runtime_services}

\* The hooks that read through a pointer argument of the guest:
\* *BufferSize and Protocol, str, name and vendor
ReadsGuestPointer ==
    {"efi_hook_LocateHandle", "efi_conout_hook_OutputString",
     "efi_runtime_set_variable"}

\* What the guest passes as the pointer argument of a hook that has one
GuestPointers == {"guest buffer", "NULL", "&linux_bootservices"}

\* A hook of StubSlots called with pointer argument ptr: its status, the
\* host and the system table after it.  A hook with no parameter returns
\* its status and does nothing else; efi_runtime_get_time copies the first
\* sizeof( current_time ) bytes of fake_time to tm.
efi_stub_AllSuccess(name, ptr, systab) ==
    [status |-> EFI_SUCCESS, host |-> "OK", systab |-> systab]

efi_stub(name, ptr, systab) ==
    IF name \in ReadsGuestPointer \cup {"efi_runtime_get_time"} /\ ptr = "NULL"
    THEN [status |-> "none", host |-> "OOPS", systab |-> systab]
    ELSE [status |->
              IF name = "efi_hook_LocateHandle" THEN EFI_NOT_FOUND
              ELSE IF name \in {"efi_hook_Stall", "efi_hook_SetWatchdogTimer",
                                "efi_conout_hook_OutputString",
                                "efi_runtime_get_time",
                                "efi_runtime_set_variable"}
                   THEN EFI_SUCCESS
                   ELSE EFI_UNSUPPORTED,
          host |-> "OK",
          systab |->
              IF name = "efi_runtime_get_time" /\ ptr = "&linux_bootservices"
              THEN [systab EXCEPT !.services[0] = "fake_time"]
              ELSE systab]

\* The guest calls one of these hooks
StubCall ==
    /\ pc = "guest" /\ host = "OK"
    /\ \E name \in StubSlots, ptr \in GuestPointers :
          LET r == efi_stub(name, ptr, fake_systab)
          IN /\ name \notin ReadsGuestPointer \cup {"efi_runtime_get_time"}
                    => ptr = "guest buffer"
             /\ fake_systab' = r.systab
             /\ host' = r.host
             /\ last' = Rec(name, "guest", r.status, [ptr |-> ptr], <<>>)
             /\ UNCHANGED <<pc, efi_memory_mappings, efi_mem_map_epoch, vmas,
                            kheap, phys_of_null, faults, kexec_mutex, task,
                            image, windows_loaded_image, purevars>>

NextStub ==
    \/ \E t \in Tasks : sys_kexec_load(t)
    \/ \E t \in Tasks : do_kexec_load(t)
    \/ StubCall
    \/ \E t \in Tasks : efiApp_returns(t)

SpecStub == Init /\ [][NextStub]_vars

\* --------------------------------------------- kimage_load_pe on its own
\* Sixteen bytes that all differ
CopyData == <<17, 34, 51, 68, 85, 102, 119, 136, 153, 170, 187, 204, 221,
              238, 250, 251>>

\* A .reloc segment whose first chunk has total_size 0: no relocation
EmptyTable == <<0, 0, 0, 0, 0, 0, 0, 0>>

\* The first segment's address in the image: at a page's start, eight and
\* four bytes before a page's end
CopyMems == {16777216, 16781304, 16781308}

\* bufsz of the first segment, whose memsz is 16
CopySizes == {0, 4, 12, 16}

\* The bytes between the first segment's end and the last segment
CopyGaps == {0, 4096}

CopySegments(mem, bufsz, gap) ==
    <<Segment(CopyData, bufsz, mem, 16),
      Segment(EmptyTable, 8, mem + 16 + gap, 8)>>

\* Lists of two whole pages: the last segment lies one page beyond the end
\* of the first one, or two pages below its start
PageGaps == {4096, -12288}

PageSegments(gap) ==
    <<Segment(CopyData, 16, 16777216, 4096),
      Segment(EmptyTable, 8, 16777216 + 4096 + gap, 4096)>>

CopyArgs ==
    {[f |-> "kimage_load_pe",
      in |-> KexecLoad(mem + 8, 2, CopySegments(mem, bufsz, gap), PE, TRUE),
      env |-> LoadEnv(0, TRUE, addr, fault)] :
        mem \in CopyMems, bufsz \in CopySizes, gap \in CopyGaps,
        addr \in {<<0, 0, 0, 32, 0, 0, 0, 0>>,
                  <<0, 0, 0, 8, 128, 255, 255, 255>>},
        fault \in Faults}
    \cup
    {[f |-> "kimage_load_pe",
      in |-> KexecLoad(16777224, 2, PageSegments(gap), PE, TRUE),
      env |-> LoadEnv(0, TRUE, <<0, 0, 0, 32, 0, 0, 0, 0>>, NoFault)] :
        gap \in PageGaps}

InitCopy ==
    /\ LedgerInit
    /\ LoaderInit
    /\ arg \in CopyArgs
    /\ retval = Nothing

kimage_load_pe_call ==
    /\ arg.f = "kimage_load_pe" /\ retval = Nothing
    /\ LET a == kimage_alloc_init(arg.in.entry, arg.in.nr_segments,
                                  arg.in.segments, arg.env)
           l == kimage_load_pe(a.image, arg.in.nr_segments,
                               windows_loaded_image, arg.env)
       IN /\ image' = l.image
          /\ windows_loaded_image' = l.windows_loaded_image
          /\ retval' = [f |-> "kimage_load_pe", results |-> l.results,
                        image_size |-> l.image_size,
                        copied |-> l.reloc.before]
    /\ UNCHANGED <<ledgervars, kexec_mutex, task, fake_systab, arg>>

SpecCopy == InitCopy /\ [][kimage_load_pe_call]_vars

\* ------------------------------------------- parse_reloc_table on its own
\* Images as kimage_load_pe holds them when it calls parse_reloc_table: a
\* segment of three 8-byte fields, the last 8 of its 32 bytes beyond bufsz
\* and so never written, followed by the .reloc segment.
Field3 == N64(0)

RelocOffsets == {0, 4, 8, 24, 4000}
RelocTypes == {IMAGE_REL_BASED_DIR64, 3}
RelocWords == {type * 4096 + offset : type \in RelocTypes, offset \in RelocOffsets}

\* One chunk with page RVA va and the entries ws, and two chunks of one entry
OneChunk(va, ws) ==
    LeBytes(va, 4) \o LeBytes(8 + 2 * Len(ws), 4)
       \o (IF Len(ws) = 0 THEN <<>> ELSE LeBytes(ws[1], 2))
       \o (IF Len(ws) < 2 THEN <<>> ELSE LeBytes(ws[2], 2))

\* A header alone, with whatever total_size
Header(va, total_size) == LeBytes(va, 4) \o LeBytes(total_size, 4)

\* Tables for the walk: a chunk, a header with total_size 0 and a chunk
\* behind it; a header with total_size 0 only; a chunk without entries and
\* a chunk; a chunk followed by four bytes, which is half a header; headers
\* with a total_size of 4 and of 7, below a header's size; a chunk whose
\* total_size of 16 is beyond the segment's end
WalkTables(va) ==
    LET w0 == IMAGE_REL_BASED_DIR64 * 4096
        w8 == IMAGE_REL_BASED_DIR64 * 4096 + 8
    IN {OneChunk(va, <<w0>>) \o Header(0, 0) \o OneChunk(va, <<w8>>),
        Header(0, 0),
        OneChunk(va, <<>>) \o OneChunk(va, <<w8>>),
        OneChunk(va, <<w0>>) \o LeBytes(va, 4),
        Header(va, 4) \o LeBytes(w8, 2) \o LeBytes(0, 2),
        Header(va, 7) \o LeBytes(w8, 2) \o LeBytes(0, 2),
        Header(va, 16) \o LeBytes(w0, 2) \o LeBytes(0, 2)}

RelocTables(va) ==
    WalkTables(va) \cup
    {OneChunk(va, <<w>>) : w \in RelocWords}
       \cup {OneChunk(va, <<w1, w2>>) : w1 \in RelocWords, w2 \in RelocWords}
       \cup {OneChunk(va, <<IMAGE_REL_BASED_DIR64 * 4096 + o1>>)
                \o OneChunk(va, <<IMAGE_REL_BASED_DIR64 * 4096 + o2>>) :
                    o1 \in {0, 8}, o2 \in {4, 8}}

\* The image segment at mem, then the table
RelocSegments(mem, table) ==
    <<Segment(Field1 \o Field2 \o Field3, 24, mem, 32),
      Segment(table, Len(table), mem + 32, Len(table))>>

\* segments at 0x1000000 with page RVA 0, and at 0x1000FF8 with page RVA
\* 0xFF8, entry point 8 bytes into the image
RelocInputs ==
    {KexecLoad(16777216 + 8, 2, RelocSegments(16777216, t), PE, TRUE) :
        t \in RelocTables(0)}
       \cup {KexecLoad(16781304 + 8, 2, RelocSegments(16781304, t), PE, TRUE) :
                t \in RelocTables(4088)}

RelocArgs ==
    {[f |-> "parse_reloc_table",
      segment |-> in.segments[in.nr_segments],
      image |-> kimage_load_pe_copy(
                    kimage_alloc_init(in.entry, in.nr_segments, in.segments,
                                      LoadEnv(0, TRUE, addr, NoFault)).image,
                    in.nr_segments, LoadEnv(0, TRUE, addr, NoFault)).image] :
        in \in RelocInputs,
        addr \in {<<0, 0, 0, 32, 0, 0, 0, 0>>,
                  <<0, 0, 0, 8, 128, 255, 255, 255>>}}

InitReloc ==
    /\ LedgerInit
    /\ LoaderInit
    /\ arg \in RelocArgs
    /\ retval = Nothing

parse_reloc_table_call ==
    /\ arg.f = "parse_reloc_table" /\ retval = Nothing
    /\ LET r == parse_reloc_table(arg.image, arg.segment)
       IN retval' = [f |-> "parse_reloc_table", image |-> r.image,
                     log |-> r.log, chunks |-> r.chunks,
                     runaway |-> r.runaway]
    /\ UNCHANGED <<ledgervars, loadvars, arg>>

SpecReloc == InitReloc /\ [][parse_reloc_table_call]_vars

\* ---------------------------------------- efi_setup_11_mapping on its own
\* Regions of the linear map the mapper is called with, one after another,
\* in the address space the process starts with
MapAddrs == {LinPtr(1048576), LinPtr(1052672), LinPtr(1056768)}
MapLengths == {PAGE_SIZE, 2 * PAGE_SIZE, 3 * PAGE_SIZE}

\* do_mmap and remap_pfn_range are the host calls the mapper makes
MapEnvs == {env \in Envs : env.kmalloc_ok /\ env.node_ok /\ env.memremap_ok}

efi_setup_11_mapping_call ==
    /\ host = "OK"
    /\ \E addr \in MapAddrs, size \in MapLengths, env \in MapEnvs :
          LET m == efi_setup_11_mapping(M, addr, size, env)
          IN /\ vmas' = m.vmas
             /\ host' = m.host
             /\ phys_of_null' = m.phys_of_null
             /\ faults' = faults + Failures(env)
             /\ arg' = [f |-> "efi_setup_11_mapping", addr |-> addr,
                        size |-> size, env |-> env]
    /\ UNCHANGED <<pc, efi_memory_mappings, efi_mem_map_epoch, kheap, last,
                   loadvars, retval>>

SpecMap == Init /\ [][efi_setup_11_mapping_call]_vars


\* ------------------------------------------------------------ properties
\* the bytes [phys_addr, phys_addr + num_pages * PAGE_SIZE) of two descriptors
\* have a byte in common
RangesMeet(d, e) ==
    /\ d.num_pages > 0 /\ e.num_pages > 0
    /\ d.phys_addr < e.phys_addr + e.num_pages * PAGE_SIZE
    /\ e.phys_addr < d.phys_addr + d.num_pages * PAGE_SIZE

\* some descriptor has exactly this base and this page count
ExactMatch(mappings, PhysicalAddress, NumberOfPages) ==
    \E i \in 1..Len(mappings) :
        /\ mappings[i].phys_addr = PhysicalAddress
        /\ mappings[i].num_pages = NumberOfPages

\* C1: the ranges of the active (non-free) descriptors are pairwise disjoint.
C1_ActiveRangesDisjoint ==
    \A i, j \in 1..Len(efi_memory_mappings) :
        (/\ i < j
         /\ ~IsFree(efi_memory_mappings[i])
         /\ ~IsFree(efi_memory_mappings[j]))
        => ~RangesMeet(efi_memory_mappings[i], efi_memory_mappings[j])

\* C2: FreePages(address, count) with no descriptor of exactly that base and
\* count returns EFI_INVALID_PARAMETER and leaves the ledger unchanged.
C2_MismatchedFreeRejected ==
    [][(/\ last'.op = "FreePages"
        /\ ~ExactMatch(efi_memory_mappings, last'.a.PhysicalAddress,
                       last'.a.NumberOfPages))
       => (/\ last'.status = EFI_INVALID_PARAMETER
           /\ efi_memory_mappings' = efi_memory_mappings)]_vars

\* a free at a nonzero offset inside a tracked descriptor was rejected
C2_Witness ==
    /\ last.op = "FreePages"
    /\ last.status = EFI_INVALID_PARAMETER
    /\ ~ExactMatch(efi_memory_mappings, last.a.PhysicalAddress,
                   last.a.NumberOfPages)
    /\ \E i \in 1..Len(efi_memory_mappings) :
          /\ ~IsFree(efi_memory_mappings[i])
          /\ InRegion(efi_memory_mappings[i], last.a.PhysicalAddress)
          /\ efi_memory_mappings[i].phys_addr # last.a.PhysicalAddress

\* C3: FreePages(address, count) succeeds and re-tags the descriptor as free
\* whenever some descriptor has exactly that base and count, whatever
\* descriptors precede it in the ledger.
C3_ExactFreeSucceeds ==
    [][(/\ last'.op = "FreePages"
        /\ ExactMatch(efi_memory_mappings, last'.a.PhysicalAddress,
                      last'.a.NumberOfPages))
       => (/\ last'.status = EFI_SUCCESS
           /\ \E i \in 1..Len(efi_memory_mappings) :
                 /\ efi_memory_mappings[i].phys_addr = last'.a.PhysicalAddress
                 /\ efi_memory_mappings[i].num_pages = last'.a.NumberOfPages
                 /\ IsFree(efi_memory_mappings'[i]))]_vars

\* C4: AllocatePages followed by FreePages with the identical (address, count)
\* re-tags that descriptor as free, and a following fixed-address
\* AllocatePages of loader memory inside the freed range succeeds and appends
\* a new active descriptor.
C4_AllocFreeAlloc ==
    [][/\ (/\ last'.op = "FreePages"
           /\ last'.out.after_alloc)
          => (/\ last'.status = EFI_SUCCESS
              /\ \E i \in 1..Len(efi_memory_mappings') :
                    /\ efi_memory_mappings'[i].phys_addr = last'.a.PhysicalAddress
                    /\ efi_memory_mappings'[i].num_pages = last'.a.NumberOfPages
                    /\ IsFree(efi_memory_mappings'[i]))
       /\ (/\ last.op = "FreePages"
           /\ last.out.after_alloc
           /\ last.status = EFI_SUCCESS
           /\ last'.op = "AllocatePages"
           /\ last'.a.Type = AllocateAddress
           /\ last'.a.MemoryType \in {EfiLoaderCode, EfiLoaderData}
           /\ last'.a.NumberOfPages >= 1
           /\ last'.a.Memory >= last.a.PhysicalAddress
           /\ last'.a.Memory + last'.a.NumberOfPages * PAGE_SIZE
                <= last.a.PhysicalAddress + last.a.NumberOfPages * PAGE_SIZE)
          => (/\ last'.status = EFI_SUCCESS
              /\ Len(efi_memory_mappings') = Len(efi_memory_mappings) + 1
              /\ LET d == efi_memory_mappings'[Len(efi_memory_mappings')]
                 IN /\ ~IsFree(d)
                    /\ d.phys_addr = last'.a.Memory
                    /\ d.num_pages = last'.a.NumberOfPages)]_vars

\* C5: GetMemoryMap with a buffer smaller than descriptor_count *
\* descriptor_size returns EFI_BUFFER_TOO_SMALL, writes back exactly that
\* size, and leaves the buffer and the ledger unchanged.
C5_ShortBufferRejected ==
    [][(/\ last'.op = "GetMemoryMap"
        /\ last'.a.MemoryMapSize < Len(efi_memory_mappings) * DescriptorSize)
       => (/\ last'.status = EFI_BUFFER_TOO_SMALL
           /\ last'.out.MemoryMapSize = Len(efi_memory_mappings) * DescriptorSize
           /\ last'.out.MemoryMap = <<>>
           /\ efi_memory_mappings' = efi_memory_mappings)]_vars

\* a nonempty buffer was too small for a ledger of two descriptors
C5_Witness ==
    /\ last.op = "GetMemoryMap"
    /\ last.status = EFI_BUFFER_TOO_SMALL
    /\ last.a.MemoryMapSize > 0
    /\ Len(efi_memory_mappings) = 2
    /\ last.out.MemoryMapSize = 2 * DescriptorSize

\* C6: GetMemoryMap with a buffer of at least the required size returns
\* success, writes every descriptor, free and active, in ledger order, and
\* reports descriptor_count * descriptor_size bytes.
C6_MapWritten ==
    [][(/\ last'.op = "GetMemoryMap"
        /\ last'.a.MemoryMapSize >= Len(efi_memory_mappings) * DescriptorSize)
       => (/\ last'.status = EFI_SUCCESS
           /\ last'.out.MemoryMap = efi_memory_mappings
           /\ last'.out.MemoryMapSize = Len(efi_memory_mappings) * DescriptorSize
           /\ efi_memory_mappings' = efi_memory_mappings)]_vars

\* a map of a free and an active descriptor was written, the free one first
C6_Witness ==
    /\ last.op = "GetMemoryMap"
    /\ last.status = EFI_SUCCESS
    /\ Len(last.out.MemoryMap) = 2
    /\ IsFree(last.out.MemoryMap[1])
    /\ ~IsFree(last.out.MemoryMap[2])
    /\ last.out.MemoryMapSize = 2 * DescriptorSize

\* C7: a successful GetMemoryMap made after an allocate or free changed the
\* ledger returns a MapKey strictly greater than the key a GetMemoryMap
\* returned before that change.
C7_MapKeyIncreases ==
    [][(/\ last.pre_key # -1
        /\ last'.op = "GetMemoryMap"
        /\ last'.out.MapKey.written)
       => last'.out.MapKey.v > last.pre_key]_vars

\* C8: AllocatePages with a memory type other than loader-code, loader-data
\* or conventional returns EFI_UNSUPPORTED for every allocation kind and
\* leaves the ledger and the identity mappings unchanged.
C8_OtherTypesUnsupported ==
    [][(/\ last'.op = "AllocatePages"
        /\ last'.a.MemoryType \notin
              {EfiLoaderCode, EfiLoaderData, EfiConventionalMemory})
       => (/\ last'.status = EFI_UNSUPPORTED
           /\ efi_memory_mappings' = efi_memory_mappings
           /\ vmas' = vmas)]_vars

\* a fixed-address request for boot-services data was refused
C8_Witness ==
    /\ last.op = "AllocatePages"
    /\ last.a.Type = AllocateAddress
    /\ last.a.MemoryType = EfiBootServicesData
    /\ last.status = EFI_UNSUPPORTED

\* the memory type a call asks for
RequestedType(rec) ==
    IF rec.op = "AllocatePool" THEN rec.a.pool_type ELSE rec.a.MemoryType

\* C9: every AllocatePool and AllocatePages call that returns success has
\* appended exactly one descriptor of the requested type to the ledger.
C9_SuccessIsRegistered ==
    [][(/\ last'.op \in {"AllocatePool", "AllocatePages"}
        /\ last'.status = EFI_SUCCESS)
       => (/\ Len(efi_memory_mappings') = Len(efi_memory_mappings) + 1
           /\ SubSeq(efi_memory_mappings', 1, Len(efi_memory_mappings))
                = efi_memory_mappings
           /\ efi_memory_mappings'[Len(efi_memory_mappings')].type
                = RequestedType(last'))]_vars

\* C10: AllocatePool returns EFI_OUT_OF_RESOURCES when kmalloc fails, and then
\* adds no descriptor, creates no identity mapping and does not write *buffer.
C10_PoolOutOfResources ==
    [][(/\ last'.op = "AllocatePool"
        /\ last'.a.kmalloc_null)
       => (/\ last'.status = EFI_OUT_OF_RESOURCES
           /\ ~last'.out.buffer.written
           /\ efi_memory_mappings' = efi_memory_mappings
           /\ vmas' = vmas)]_vars

\* a pool request failed although the ledger already holds a descriptor
C10_Witness ==
    /\ last.op = "AllocatePool"
    /\ last.a.kmalloc_null
    /\ last.a.size > 0
    /\ last.status = EFI_OUT_OF_RESOURCES
    /\ Len(efi_memory_mappings) >= 1

\* C11: AllocatePages(AllocateAnyPages) with an accepted memory type and
\* NumberOfPages >= 1 delegates to AllocatePool with NumberOfPages * PAGE_SIZE
\* bytes: on success the new descriptor has num_pages = NumberOfPages and the
\* requested type and its phys_addr is written to *Memory; when the pool fails,
\* the pool's status is returned.
C11_AnyPagesDelegates ==
    [][(/\ last'.op = "AllocatePages"
        /\ last'.a.Type = AllocateAnyPages
        /\ last'.a.MemoryType \in
              {EfiLoaderCode, EfiLoaderData, EfiConventionalMemory}
        /\ last'.a.NumberOfPages >= 1
        /\ last'.status # NoReturn)
       => IF last'.status = EFI_SUCCESS
          THEN /\ Len(efi_memory_mappings') = Len(efi_memory_mappings) + 1
               /\ LET d == efi_memory_mappings'[Len(efi_memory_mappings')]
                  IN /\ d.num_pages = last'.a.NumberOfPages
                     /\ d.type = last'.a.MemoryType
                     /\ last'.out.wrote
                     /\ last'.out.Memory = d.phys_addr
          ELSE /\ last'.status = EFI_OUT_OF_RESOURCES
               /\ efi_memory_mappings' = efi_memory_mappings]_vars

\* C12: FreePool returns EFI_SUCCESS for every pointer (tracked, untracked or
\* NULL) and changes no descriptor of the ledger and no identity mapping.
C12_FreePoolSucceeds ==
    [][last'.op = "FreePool"
       => (/\ last'.status = EFI_SUCCESS
           /\ efi_memory_mappings' = efi_memory_mappings
           /\ vmas' = vmas)]_vars

\* FreePool was called with the address of an active descriptor
C12_Witness ==
    /\ last.op = "FreePool"
    /\ last.status = EFI_SUCCESS
    /\ \E i \in 1..Len(efi_memory_mappings) :
          /\ efi_memory_mappings[i].phys_addr = last.a.buff
          /\ ~IsFree(efi_memory_mappings[i])

\* C13: the ledger is append-only: no step removes or reorders a descriptor,
\* a recorded descriptor keeps its phys_addr, num_pages and attribute, and its
\* type changes only in a successful FreePages of exactly its base and count,
\* which sets it to free.
C13_AppendOnly ==
    [][/\ Len(efi_memory_mappings') >= Len(efi_memory_mappings)
       /\ \A i \in 1..Len(efi_memory_mappings) :
             LET d == efi_memory_mappings[i]
                 e == efi_memory_mappings'[i]
             IN /\ e.phys_addr = d.phys_addr
                /\ e.num_pages = d.num_pages
                /\ e.attribute = d.attribute
                /\ \/ e.type = d.type
                   \/ /\ last'.op = "FreePages"
                      /\ last'.status = EFI_SUCCESS
                      /\ last'.a.PhysicalAddress = d.phys_addr
                      /\ last'.a.NumberOfPages = d.num_pages
                      /\ IsFree(e)]_vars

\* a FreePages re-tagged a descriptor of a ledger of two
C13_Witness ==
    /\ last.op = "FreePages"
    /\ last.status = EFI_SUCCESS
    /\ last.out.changed
    /\ Len(efi_memory_mappings) = 2

\* C14: if copying a segment fails during load, the load stops at that
\* segment, the failure is returned to the kexec_load caller and the guest
\* entry point is not invoked in that session: do_kexec_load calls the entry
\* point only when every kimage_load_pe_segment returned 0, and a failing
\* segment is the last one loaded.
NoCopyFailed(results) == \A i \in 1..Len(results) : results[i] = 0

C14_CopyFailureStopsLoad ==
    [][\A t \in Tasks :
          task[t].at = "do_kexec_load" /\ task'[t].at = "efiApp"
             => NoCopyFailed(task'[t].results)]_vars

\* The fields of two entries share a byte
FieldsMeet(f, g) == f.at - g.at < 8 /\ g.at - f.at < 8

\* The little-endian value of bytes, for values an integer holds
RECURSIVE IntOf(_)
IntOf(b) == IF b = <<>> THEN 0 ELSE b[1] + 256 * IntOf(Tail(b))
Small(b) == Known(b) /\ b[4] < 64 /\ \A i \in 5..8 : b[i] = 0

\* C15: when parse_reloc_table returns, the field of every type-10 entry
\* holds old_value - 0x10000000 + bias modulo 2^64, where old_value is what
\* the field held when the entry was processed (what the loaded image held,
\* for a field no earlier type-10 entry of the table touches) and bias is
\* the address of the entry point in the buffer minus
\* (image->start - 0x1000000); with bias 0x20000000 a field that held
\* 0x10000000 + X holds 0x20000000 + X.  A field that a later type-10 entry
\* touches again holds what that entry left.
C15_RelocBias ==
    IF retval.f # "parse_reloc_table" THEN 0 = 0
    ELSE LET PatchedBefore(k) ==
                 \E j \in 1..(k - 1) :
                     /\ retval.log[j].type = IMAGE_REL_BASED_DIR64
                     /\ FieldsMeet(retval.log[j], retval.log[k])
             PatchedAfter(k) ==
                 \E j \in (k + 1)..Len(retval.log) :
                     /\ retval.log[j].type = IMAGE_REL_BASED_DIR64
                     /\ FieldsMeet(retval.log[j], retval.log[k])
         IN \A k \in 1..Len(retval.log) :
              LET f == retval.log[k]
                  held == ReadBytes(arg.image, f.at, 8)
                  now == ReadBytes(retval.image, f.at, 8)
                  bias == Sub64(arg.image.raw_image_start,
                                N64(arg.image.start - 16777216))
              IN (f.type = 10 /\ Known(f.old))
                   => /\ ~PatchedBefore(k) => f.old = held
                      /\ ~PatchedAfter(k) =>
                           /\ AddBytes(now, N64(268435456), 0) = AddBytes(f.old, bias, 0)
                           /\ (bias = N64(536870912) /\ Small(f.old)
                                  /\ IntOf(f.old) >= 268435456)
                                => now = N64(536870912 + (IntOf(f.old) - 268435456))

\* A type-10 entry for a field holding 0x10001234, with bias 0x20000000
C15_Witness ==
    /\ retval.f = "parse_reloc_table"
    /\ Sub64(arg.image.raw_image_start, N64(arg.image.start - 16777216))
          = N64(536870912)
    /\ \E k \in 1..Len(retval.log) :
          /\ retval.log[k].type = 10
          /\ retval.log[k].old = N64(268435456 + 4660)
          /\ ReadBytes(retval.image, retval.log[k].at, 8) = N64(536870912 + 4660)

\* The offsets in the buffer of the bytes at bias + page RVA + offset .. + 7
\* of the type-10 entries that were processed; the bias is the buffer's
\* address plus 0x1000000 minus the first segment's address.
Type10Bytes ==
    {retval.log[k].va_offset + retval.log[k].offset + 16777216
         - arg.image.segment[1].mem + j :
       k \in {i \in 1..Len(retval.log) : retval.log[i].type = 10},
       j \in 0..7}

\* C16: parse_reloc_table writes only the 8-byte fields at
\* bias + page RVA + offset of the entries whose type is 10: every other
\* byte of the loaded image, and so every field named only by entries of
\* another type, is as it was, and nothing outside those fields is written.
C16_RelocFrame ==
    retval.f = "parse_reloc_table" =>
       /\ Len(retval.image.mem) = Len(arg.image.mem)
       /\ \A k \in 1..Len(arg.image.mem) :
             (k - 1) \notin Type10Bytes => retval.image.mem[k] = arg.image.mem[k]
       /\ retval.image.stray \ arg.image.stray \subseteq Type10Bytes
       /\ [retval.image EXCEPT !.mem = arg.image.mem, !.stray = arg.image.stray]
             = arg.image

\* A table with a type-3 entry for the field at offset 0 and a type-10 entry
\* for the field at offset 8: the first field is as loaded, the second is not
C16_Witness ==
    /\ retval.f = "parse_reloc_table"
    /\ Len(retval.log) = 2
    /\ retval.log[1].type = 3 /\ retval.log[1].at = 0
    /\ retval.log[2].type = 10 /\ retval.log[2].at = 8
    /\ ReadBytes(retval.image, 0, 8) = ReadBytes(arg.image, 0, 8)
    /\ ReadBytes(retval.image, 8, 8) # ReadBytes(arg.image, 8, 8)

\* C17: GetGuidName returns, for every GUID that some entry of GuidMappings
\* holds, the name of the first entry holding it, and "<Unknown>" for every
\* 128-bit value that no entry holds, after comparing at most
\* NUM_GUID_MAPPINGS (441) entries.
C17_FirstMatch ==
    (retval.f = "GetGuidName" /\ arg.Protocol # NullGuid) =>
       \A table \in {GuidMappings} :
          LET present == {i \in 1..Len(table) : table[i].Guid = arg.Protocol}
          IN /\ Len(table) = 441
             /\ retval.examined <= 441
             /\ present = {} => retval.Name = "<Unknown>"
             /\ \A i \in present :
                   (\A j \in present : i <= j)
                      => retval.Name = table[i].Name /\ retval.examined = i

\* The all-zero GUID, which three entries hold, resolved to the first one's
\* name
C17_Witness ==
    /\ retval.f = "GetGuidName"
    /\ arg.Protocol = [i \in 1..16 |-> 0]
    /\ retval.Name = "gZeroGuid"
    /\ retval.examined < 441

\* C18: efi_hook_HandleProtocol hands out an interface only for
\* gEfiLoadedImageProtocolGuid and gEfiDevicePathProtocolGuid; for every
\* other GUID, in the table or not, it returns EFI_UNSUPPORTED and the
\* caller's interface variable is NULL after the call.
C18_OtherGuidsUnsupported ==
    [][(last'.op = "HandleProtocol" /\ last'.a.guid # NullGuid)
         => /\ last'.out.interface.written
                 => last'.a.guid \in {gEfiLoadedImageProtocolGuid,
                                      gEfiDevicePathProtocolGuid}
            /\ last'.a.guid \notin {gEfiLoadedImageProtocolGuid,
                                    gEfiDevicePathProtocolGuid}
                 => /\ last'.status = EFI_UNSUPPORTED
                    /\ CallerInterface(last') = "NULL"]_vars

\* The load of the session in progress succeeded: the buffer was allocated
\* and every segment was copied
LoadSucceeded ==
    /\ image.raw_image # NULL64
    /\ \E t \in Tasks : /\ task[t].at = "efiApp"
                        /\ NoCopyFailed(task[t].results)

\* C19: after a successful load, HandleProtocol for
\* gEfiLoadedImageProtocolGuid returns EFI_SUCCESS and an interface whose
\* ImageBase is the address of the buffer kimage_load_pe allocated and whose
\* ImageSize is the sum of the segments' memsz.
C19_LoadedImageReports ==
    [][(/\ last'.op = "HandleProtocol"
        /\ last'.a.guid = gEfiLoadedImageProtocolGuid
        /\ LoadSucceeded)
         => /\ last'.status = EFI_SUCCESS
            /\ last'.out.interface = Interface("&windows_loaded_image")
            /\ windows_loaded_image'.ImageBase = image.raw_image
            /\ windows_loaded_image'.ImageSize
                  = SumMemsz(image.segment, image.nr_segments)]_vars

\* Task t is between mutex_trylock and mutex_unlock
InsideLoadRun(t) == task[t].at \in {"do_kexec_load", "efiApp"}

\* C20: at most one kexec_load call is inside the load and run sequence; a
\* call that comes to mutex_trylock while another call holds kexec_mutex
\* returns -EBUSY, and no call made while the mutex is held enters the
\* sequence or changes the ledger or the service table.
C20_OneSession ==
    [][/\ \A t, u \in Tasks :
             (InsideLoadRun(t) /\ InsideLoadRun(u))' => t = u
       /\ \A t \in Tasks : InsideLoadRun(t)' => kexec_mutex' = t
       /\ \A t \in Tasks :
             (kexec_mutex # 0 /\ task[t].at = "user")
                => /\ task'[t].at = "user"
                   /\ (last' # last /\ last'.op = "kexec_load" /\ last'.by = t)
                        => /\ last'.status # 0
                           /\ (last'.a.capable /\ last'.a.flags.legal)
                                 => last'.status = -EBUSY
                           /\ UNCHANGED <<efi_memory_mappings,
                                          efi_mem_map_epoch, vmas, kheap,
                                          fake_systab, windows_loaded_image,
                                          image, kexec_mutex>>]_vars

\* A call was refused with -EBUSY while the other task is in the guest
C20_Witness ==
    /\ last.op = "kexec_load" /\ last.status = -EBUSY
    /\ kexec_mutex # 0
    /\ \E u \in Tasks : u # last.by /\ task[u].at = "efiApp"

\* A page at physical address p is identity-mapped in the address space mm
IdentityMapped(mm, p) ==
    \E v \in mm : v.pfnmap /\ v.vm_start <= p /\ p < v.vm_end

\* The pages of the region [addr, addr + size)
RegionPages(addr, size) ==
    {p \in {ALIGN_DOWN(addr, PAGE_SIZE) + i * PAGE_SIZE : i \in 0..3} :
        p < addr + size}

\* C21: efi_setup_11_mapping is safe under repetition: called for a region
\* that meets a window it mapped before (the same region, one reaching past
\* the window's end, one starting before it), it returns without stopping
\* the host, every identity-mapped window there was is still in place, and
\* every page of the region is identity-mapped afterwards.
C21_MapperRepeatable ==
    [][(/\ arg'.f = "efi_setup_11_mapping"
        /\ arg'.env = NoFailure(arg'.env)
        /\ \E p \in RegionPages(arg'.addr.a, arg'.size) :
              IdentityMapped(vmas, p))
         => /\ host' = "OK"
            /\ \A v \in vmas : v.pfnmap => v \in vmas'
            /\ \A p \in RegionPages(arg'.addr.a, arg'.size) :
                  IdentityMapped(vmas', p)]_vars

\* The half-open range [lo, hi) lies inside the union of the ranges in rs:
\* lo and every end of a range inside [lo, hi) lie in some range of rs
Covered(lo, hi, rs) ==
    \A x \in {lo} \cup {r[2] : r \in {q \in rs : lo <= q[2] /\ q[2] < hi}} :
        \E r \in rs : r[1] <= x /\ x < r[2]

IdentityWindows == {<<v.vm_start, v.vm_end>> : v \in {w \in vmas : w.pfnmap}}

DescriptorRanges ==
    {<<efi_memory_mappings[i].phys_addr,
       efi_memory_mappings[i].phys_addr
          + efi_memory_mappings[i].num_pages * PAGE_SIZE>> :
        i \in 1..Len(efi_memory_mappings)}

\* C22: in every state every descriptor of the ledger is backed by the
\* identity mapping, each of its pages lying inside an identity-mapped
\* window, and every identity-mapped window is covered by descriptors of the
\* ledger.
C22_LedgerBacked ==
    host = "OK" =>
       /\ \A d \in DescriptorRanges : Covered(d[1], d[2], IdentityWindows)
       /\ \A w \in IdentityWindows : Covered(w[1], w[2], DescriptorRanges)

\* C23: once the boot-services pointer of the system table is published,
\* no slot of the boot-services table is null or holds the fill pattern,
\* every slot holds a hook of the hook table, and the slots 2, 3, 4, 5, 6
\* and 16 hold the hooks of AllocatePages, FreePages, GetMemoryMap,
\* AllocatePool, FreePool and HandleProtocol.
C23_SlotsBound ==
    fake_systab.boottime = "&linux_bootservices" =>
        /\ \A i \in DOMAIN fake_systab.services :
              /\ fake_systab.services[i] \notin {"0", Fill0x43}
              /\ \E j \in DOMAIN efi_boot_service_hooks :
                    fake_systab.services[i] = efi_boot_service_hooks[j]
        /\ fake_systab.services[2] = "efi_hook_AllocatePages"
        /\ fake_systab.services[3] = "efi_hook_FreePages"
        /\ fake_systab.services[4] = "efi_hook_GetMemoryMap"
        /\ fake_systab.services[5] = "efi_hook_AllocatePool"
        /\ fake_systab.services[6] = "efi_hook_FreePool"
        /\ fake_systab.services[16] = "efi_hook_HandleProtocol"

C23_Witness ==
    /\ fake_systab.boottime = "&linux_bootservices"
    /\ \E t \in Tasks : task[t].at = "efiApp"

\* A step in which the guest calls a hook of StubSlots
StubStep == last' # last /\ last'.op \in StubSlots

\* The hooks of StubSlots that do something, or report something else than
\* Unsupported
OwnBehaviour ==
    {"efi_hook_LocateHandle", "efi_hook_Stall", "efi_hook_SetWatchdogTimer",
     "efi_conout_hook_OutputString", "efi_runtime_get_time",
     "efi_runtime_set_variable"}

EntryInvoked(t) == task[t].at # "efiApp" /\ task'[t].at = "efiApp"

\* C25: the entry point is called once in a session, by the task that holds
\* kexec_mutex and has not called it yet, only after every segment was
\* copied and with the system table populated (console handles, runtime and
\* boot services pointers, every boot-service slot assigned), and its
\* arguments are the image handle and the address of that system table.
C25_EntryAfterLoad ==
    [][\A t \in Tasks :
          EntryInvoked(t) =>
             /\ task[t].at = "do_kexec_load" /\ kexec_mutex = t
             /\ \A u \in Tasks \ {t} : task'[u].at # "efiApp"
             /\ NoCopyFailed(task'[t].results)
             /\ Len(task'[t].results) = task'[t].in.nr_segments
             /\ fake_systab'.con_in_handle = "CON_IN_HANDLE"
             /\ fake_systab'.con_out_handle = "0xdeadbeefcafebabe"
             /\ fake_systab'.runtime = "&runtime_services"
             /\ fake_systab'.boottime = "&linux_bootservices"
             /\ \A i \in DOMAIN fake_systab'.services :
                   fake_systab'.services[i] = efi_boot_service_hooks[i + 1]
             /\ task'[t].imageHandle = ImageHandle
             /\ task'[t].systemTable = "&fake_systab"]_vars

\* Descriptor d covers the size bytes at the 64-bit address base: the
\* address is one the ledger can hold and the range lies in d's pages.
CoversBuffer(d, base, size) ==
    /\ Small(base)
    /\ d.phys_addr <= IntOf(base)
    /\ IntOf(base) + size <= d.phys_addr + d.num_pages * PAGE_SIZE

\* C26: when the entry point is called, some descriptor of the ledger covers
\* the image buffer, the ImageSize bytes from ImageBase.
C26_ImageInLedger ==
    [][\A t \in Tasks :
          EntryInvoked(t) =>
             \E i \in 1..Len(efi_memory_mappings') :
                CoversBuffer(efi_memory_mappings'[i],
                             windows_loaded_image'.ImageBase,
                             windows_loaded_image'.ImageSize)]_vars

RECURSIVE MemszSum(_)
MemszSum(segments) ==
    IF segments = <<>> THEN 0
    ELSE segments[1].memsz + MemszSum(Tail(segments))

TotalSize(segment, chunk) == ChunkHeader(segment.buf, chunk).total_size

\* The cursor when the walk over the chunks cs stopped
StopPoint(segment, cs) ==
    IF cs = <<>> THEN 0
    ELSE cs[Len(cs)] + TotalSize(segment, cs[Len(cs)])

\* The chunks cs are those from the segment's start on, each behind the
\* one before it, up to the first header with total_size 0 or the
\* segment's end
WalkInOrder(segment, cs) ==
    /\ \A k \in 1..Len(cs) :
          /\ cs[k] = IF k = 1 THEN 0
                     ELSE cs[k - 1] + TotalSize(segment, cs[k - 1])
          /\ cs[k] < segment.bufsz
          /\ TotalSize(segment, cs[k]) # 0
    /\ \/ StopPoint(segment, cs) >= segment.bufsz
       \/ TotalSize(segment, StopPoint(segment, cs)) = 0

\* C29: parse_reloc_table comes to its end having read nothing but the
\* segment, and the chunks it processed are those from the segment's start
\* on, in order, up to the first whose total_size is 0 or to the segment's
\* end, and none behind that.
C29_WalkStops ==
    retval.f = "parse_reloc_table" =>
        /\ ~retval.runaway
        /\ WalkInOrder(arg.segment, retval.chunks)

\* C30: CompareGuid returns zero for two GUIDs exactly when their sixteen
\* bytes are the same, also when a word difference lies outside the range
\* of int32_t.
C30_ZeroIffEqual ==
    retval.f = "CompareGuid" =>
        (retval.r = Zero32 <=> arg.Guid1 = arg.Guid2)

\* 0x7FFFFFFF - 0x80000000 in the first word: the difference 2^32 - 1 is
\* beyond int32_t, and the result is not zero
C30_Witness ==
    /\ retval.f = "CompareGuid"
    /\ GuidWord(arg.Guid1, 0) = <<255, 255, 255, 127>>
    /\ GuidWord(arg.Guid2, 0) = <<0, 0, 0, 128>>
    /\ retval.r = <<255, 255, 255, 255>>

\* C31: a query for gEfiLoadedImageProtocolGuid that succeeds after the
\* device path was built by an earlier query leaves FilePath and
\* LoadOptions of the loaded-image interface as that query set them: the
\* device path is built once.
C31_DevicePathOnce ==
    [][(/\ last'.op = "HandleProtocol"
        /\ last'.a.guid = gEfiLoadedImageProtocolGuid
        /\ last'.status = EFI_SUCCESS
        /\ windows_loaded_image.FilePath # NULL64)
         => /\ windows_loaded_image'.FilePath = windows_loaded_image.FilePath
            /\ windows_loaded_image'.LoadOptions
                  = windows_loaded_image.LoadOptions]_vars

\* C32: an AllocatePages call of type AllocateAddress with an accepted
\* memory type whose memremap fails does not return EFI_SUCCESS and
\* registers no descriptor.
C32_RemapFailureIsError ==
    [][\A in \in AllocatePagesInputs : \A env \in Envs :
          (/\ pc = "guest" /\ host = "OK"
           /\ in[1] = AllocateAddress
           /\ in[2] \in {EfiLoaderData, EfiConventionalMemory, EfiLoaderCode}
           /\ ~env.memremap_ok
           /\ AllocatePagesCall("guest", "guest", in[1], in[2], in[3], in[4],
                                env))
            => /\ last'.status # EFI_SUCCESS
               /\ efi_memory_mappings' = efi_memory_mappings]_vars

\* C33: after kimage_load_pe of an accepted segment list, gapped or not,
\* no byte of a segment was written outside the image buffer
\* [raw_image, raw_image + image_size).
C33_WritesInsideBuffer ==
    (retval # Nothing /\ retval.f = "kimage_load_pe") => image.stray = {}

\* The entries of a chunk with the given total_size: those behind its
\* header, none when total_size is below a header's size
EntriesIn(total_size) ==
    IF total_size >= 8 THEN (total_size - 8) \div 2 ELSE 0

RECURSIVE EntriesOf(_, _)
EntriesOf(segment, cs) ==
    IF cs = <<>> THEN 0
    ELSE EntriesIn(TotalSize(segment, cs[1])) + EntriesOf(segment, Tail(cs))

\* C34: parse_reloc_table handles (total_size - 8) / 2 entries for every
\* chunk it processes, none for a chunk whose total_size is below 8, and
\* the entries of every chunk lie inside the segment's bufsz bytes.
C34_EntriesInsideSegment ==
    retval.f = "parse_reloc_table" =>
        /\ Len(retval.log) = EntriesOf(arg.segment, retval.chunks)
        /\ \A k \in 1..Len(retval.chunks) :
              retval.chunks[k]
                 + 8 + 2 * EntriesIn(TotalSize(arg.segment, retval.chunks[k]))
                    <= arg.segment.bufsz

\* C35: the descriptor an AllocatePool call of size bytes appends to the
\* ledger has num_pages = ceil(size / PAGE_SIZE), which is 0 for size 0.
C35_PoolPageCount ==
    [][(/\ last'.op = "AllocatePool"
        /\ last'.status = EFI_SUCCESS
        /\ Len(efi_memory_mappings') = Len(efi_memory_mappings) + 1)
         => efi_memory_mappings'[Len(efi_memory_mappings')].num_pages
               = (last'.a.size + PAGE_SIZE - 1) \div PAGE_SIZE]_vars

\* C36: when launch_efi_app starts a session the ledger is empty: no
\* descriptor of an earlier session that has returned is left for the new
\* session's GetMemoryMap and FreePages to find.
C36_SessionStartsEmpty ==
    [][(pc = "idle" /\ pc' = "guest") => efi_memory_mappings = <<>>]_vars

\* C37: a FreePages call that follows a successful FreePages call with the
\* same address and page count, no other call in between, returns
\* EFI_SUCCESS as well and leaves the ledger as the first call left it.
C37_FreeAgain ==
    [][(/\ last.op = "FreePages" /\ last.status = EFI_SUCCESS
        /\ last'.op = "FreePages" /\ last'.a = last.a
        /\ last' # last)
         => /\ last'.status = EFI_SUCCESS
            /\ efi_memory_mappings' = efi_memory_mappings]_vars

\* The two pages at 0x101000 were freed, and freed again with success
C37_Witness ==
    /\ last.op = "FreePages" /\ last.status = EFI_SUCCESS
    /\ last.a.PhysicalAddress = 1052672 /\ last.a.NumberOfPages = 2
    /\ ~last.out.changed
    /\ \E i \in 1..Len(efi_memory_mappings) :
          /\ efi_memory_mappings[i].phys_addr = 1052672
          /\ efi_memory_mappings[i].num_pages = 2
          /\ efi_memory_mappings[i].type = EfiConventionalMemory

\* C38: a task that leaves kexec_load after do_kexec_load, whatever
\* do_kexec_load did, held kexec_mutex and leaves it free: no task that
\* is back in user mode holds the mutex.
C38_MutexReleased ==
    [][\A t \in Tasks :
          (task[t].at # "user" /\ task'[t].at = "user")
             => (kexec_mutex = t /\ kexec_mutex' = 0)]_vars

\* kimage_alloc_init failed for a PE load: the call returned -ENOMEM and
\* the mutex is free
C38_Witness ==
    /\ last.op = "kexec_load" /\ last.status = -ENOMEM
    /\ last.a.flags.RUN_PE
    /\ task[last.by].at = "user"
    /\ kexec_mutex = 0

\* C39: HandleProtocol for gEfiDevicePathProtocolGuid returns
\* windows_boot_device_path for BOOT_DEVICE_HANDLE and for it only; for
\* another handle it returns EFI_UNSUPPORTED and does not store to
\* *interface.  HandleProtocol for gEfiLoadedImageProtocolGuid returns
\* EFI_SUCCESS whatever the handle.
C39_HandleMatters ==
    [][last'.op = "HandleProtocol" =>
          /\ last'.a.guid = gEfiDevicePathProtocolGuid =>
                IF last'.a.handle = BOOT_DEVICE_HANDLE
                THEN /\ last'.status = EFI_SUCCESS
                     /\ last'.out.interface
                           = Interface("windows_boot_device_path")
                ELSE /\ last'.status = EFI_UNSUPPORTED
                     /\ ~last'.out.interface.written
          /\ last'.a.guid = gEfiLoadedImageProtocolGuid =>
                last'.status = EFI_SUCCESS]_vars

\* C40: AllocatePages with an accepted memory type and an allocation type
\* other than AllocateAddress and AllocateAnyPages returns EFI_UNSUPPORTED
\* and leaves the ledger, the identity mappings and *Memory as they were.
C40_OtherKindsUnsupported ==
    [][(/\ last'.op = "AllocatePages"
        /\ last'.a.MemoryType \in {EfiLoaderData, EfiConventionalMemory,
                                   EfiLoaderCode}
        /\ last'.a.Type \notin {AllocateAddress, AllocateAnyPages})
         => /\ last'.status = EFI_UNSUPPORTED
            /\ efi_memory_mappings' = efi_memory_mappings
            /\ vmas' = vmas
            /\ ~last'.out.wrote
            /\ last'.out.Memory = last'.a.Memory]_vars

\* AllocateMaxAddress for EfiLoaderData was refused while the ledger held
\* the pool and another allocation
C40_Witness ==
    /\ last.op = "AllocatePages" /\ last.by = "guest"
    /\ last.a.Type = AllocateMaxAddress
    /\ last.a.MemoryType = EfiLoaderData
    /\ last.status = EFI_UNSUPPORTED
    /\ Len(efi_memory_mappings) >= 2

====
